---- MODULE Spec2Model ----
(***************************************************************************)
(* Smart clothesline controller: the device-communication layer            *)
(* (utils/nodemcu_manager.py), the two polling loops (polling_worker and   *)
(* app.nodemcu_reader) and the auto-control check, as a state machine.     *)
(*                                                                         *)
(* Time is counted in ticks; one second is TicksPerSec ticks.  time.time() *)
(* and datetime.now() read the clock `now`; strftime("%Y-%m-%d %H:%M:%S")  *)
(* keeps whole seconds only.                                               *)
(***************************************************************************)
EXTENDS Integers, Sequences, FiniteSets, TLC

VARIABLES
    now,                    \* the wall clock, in ticks
    threads_running,        \* config.threads_running
    enabled,                \* config.AUTO_SETTINGS['enabled']
    lightThreshold,         \* config.AUTO_SETTINGS['lightThreshold']
    rainThreshold,          \* config.AUTO_SETTINGS['rainThreshold']
    max_retries,            \* config.APP_CONFIG.get('max_retries', 3)
    POLLING_INTERVAL,       \* config.Config.POLLING_INTERVAL, seconds
    polling_interval,       \* config.APP_CONFIG['polling_interval'], seconds
    command_cooldown,       \* config.APP_CONFIG.get('command_cooldown', 300), seconds
    use_render,             \* config.NODEMCU_CONFIG.get('use_render', False)
    base_url,               \* config.NODEMCU_CONFIG['base_url']
    last_auto_command_time, \* config.last_auto_command_time, in ticks
    latest_polled_data,     \* nodemcu_manager.latest_polled_data: <<>> (None) or <<reading>>
    cache_pending,          \* the thread that fetched the cached reading and has not
                            \* yet called save_sensor_data for it, or "none"
    gsrc,                   \* per thread: cache_pending as it was when the thread was
                            \* last handed the cached reading, until that save
    db_latest,              \* newest row of table sensor_data: <<>> or <<row>>
    db_count,               \* rows in table sensor_data (MaxRows: that many or more)
    MODEL_INFO,             \* config.MODEL_INFO
    settings,               \* table settings: the model_* keys
    training_interval,      \* config.APP_CONFIG['training_interval'], seconds
    th,                     \* per thread: program position and locals
    accepts,                \* times of the last two auto commands the device accepted
    device,                 \* the readings the device of this deployment may report
    horizon,                \* ticks the clock may advance in this run
    get_answers,            \* what a GET attempt may meet in this deployment
    post_answers,           \* what a control POST attempt may meet
    db_flaky,               \* whether database calls may fail
    arg,                    \* inputs of the pure-function specifications
    res                     \* their result

cfgVars == <<max_retries, POLLING_INTERVAL, polling_interval, command_cooldown,
            use_render, base_url, training_interval>>
cacheVars == <<latest_polled_data, cache_pending, gsrc>>
dbVars == <<db_latest, db_count>>
mlVars == <<MODEL_INFO, settings>>
setVars == <<enabled, lightThreshold, rainThreshold>>
pureVars == <<arg, res>>
envVars == <<device, horizon, get_answers, post_answers, db_flaky>>
vars == <<now, threads_running, enabled, lightThreshold, rainThreshold, max_retries,
          POLLING_INTERVAL, polling_interval, command_cooldown, use_render, base_url,
          last_auto_command_time,
          latest_polled_data, cache_pending, gsrc, db_latest, db_count, MODEL_INFO,
          settings, training_interval, th, accepts, device, horizon,
          get_answers, post_answers, db_flaky, arg, res>>

(***************************************************************************)
(* Bounds of the model.                                                    *)
(***************************************************************************)
Horizon == 4            \* ticks the clock may advance after start
MaxRetries == 2         \* largest configured max_retries
TicksPerSec == 2        \* ticks in a second: the clock's resolution
MaxRows == 14           \* rows counted in table sensor_data; MaxRows stands for more too

CooldownChoices == {2}      \* configured command_cooldown, seconds
PollChoices == {1}          \* configured polling interval, seconds
TrainingChoices == {1}      \* configured training_interval, seconds

\* config.Config.POLLING_INTERVAL, which the polling module reads from a
\* configuration class that is not among the sources: the polling interval setting
ConfigPollingIntervals == PollChoices

\* time.time() at start: later than any cooldown after the epoch
StartTime == 2 * TicksPerSec

Max(a, b) == IF a >= b THEN a ELSE b
Min(a, b) == IF a <= b THEN a ELSE b

(***************************************************************************)
(* Values.                                                                 *)
(***************************************************************************)
None == <<>>
Some(x) == <<x>>
IsNone(o) == o = <<>>
Val(o) == o[1]

AbsentNum == 0 - 1      \* a numeric field the JSON object does not hold
BadTs == 0 - 2          \* a timestamp string strptime cannot parse
Absent == "absent"      \* a string field the JSON object does not hold

OPEN == "TERBUKA"
CLOSED == "TERTUTUP"
MOVING == "BERGERAK"

\* str.upper() on the status strings the device is taken to send
Upper(s) ==
    CASE s = "terbuka" -> "TERBUKA"
      [] s = "tertutup" -> "TERTUTUP"
      [] OTHER -> s

\* dict.get(key, default)
DictGetNum(v, default) == IF v = AbsentNum THEN default ELSE v
DictGetStr(v, default) == IF v = Absent THEN default ELSE v

\* datetime.strftime("%Y-%m-%d %H:%M:%S"): whole seconds
FormatTime(t) == t \div TicksPerSec
\* datetime.strptime(s, "%Y-%m-%d %H:%M:%S"), back in ticks
ParseTime(s) == s * TicksPerSec

(***************************************************************************)
(* What the device may answer to GET /api/data.                            *)
(***************************************************************************)
Wet == [ldr |-> 300, rain |-> 600]
Sunny == [ldr |-> 600, rain |-> 100]

Reading(s, st, c, ts) ==
    [ldr |-> s.ldr, rain |-> s.rain, status |-> st, connected |-> c, ts |-> ts,
     at |-> 0]

DeviceReadings ==
    { Reading(s, st, c, AbsentNum) :
        s \in {Wet, Sunny}, st \in {OPEN, CLOSED, MOVING}, c \in {"true", "false"} }
    \cup { Reading(Wet, "terbuka", "true", AbsentNum),
           Reading(Wet, OPEN, Absent, AbsentNum),
           Reading(Sunny, CLOSED, "true", BadTs),
           Reading(Sunny, CLOSED, "true", FormatTime(StartTime)),
           [ldr |-> AbsentNum, rain |-> AbsentNum, status |-> Absent,
            connected |-> "true", ts |-> AbsentNum, at |-> 0] }

\* The readings of a device watched by the auto-control loop
AutoDevice ==
    { Reading(Wet, OPEN, "true", AbsentNum),
      Reading(Wet, CLOSED, "true", AbsentNum),
      Reading(Wet, MOVING, "true", AbsentNum),
      Reading(Sunny, CLOSED, "true", AbsentNum) }

\* The readings of a device an operator commands by hand
ManualDevice ==
    { Reading(Wet, OPEN, "true", AbsentNum),
      Reading(Wet, CLOSED, "true", AbsentNum),
      Reading(Wet, MOVING, "true", AbsentNum),
      Reading(Wet, "terbuka", "true", AbsentNum),
      Reading(Wet, OPEN, "false", AbsentNum),
      Reading(Wet, CLOSED, Absent, AbsentNum),
      Reading(Wet, Absent, "true", AbsentNum) }

\* The readings of a line that is open in the rain, moving at times
RainDevice ==
    { Reading(Wet, OPEN, "true", AbsentNum),
      Reading(Wet, MOVING, "true", AbsentNum) }

\* config.py line 41: the address of the device on the local network
DEVICE_URL == "http://192.168.8.137/"
\* nodemcu_manager.py line 43: the cloud endpoint
RENDER_URL == "https://iot-clothesline-system.onrender.com"

\* the values base_url may be configured to
BaseUrls == {"", "http://localhost/", DEVICE_URL}

\* the endpoint taken from base_url unless render mode is switched on
get_api_endpoint_NoFallback(render, base, path) ==
    IF render
      THEN <<RENDER_URL, IF path # "" THEN <<"/api/", path>> ELSE <<"/api/data">> >>
      ELSE <<base, IF path # "" THEN <<"/api/", path>> ELSE <<"/api/data">> >>

\* lines 27-51: the URL as the pair of its host part and its path
get_api_endpoint(render, base, path) ==
    IF render \/ base = "" \/ base = "http://localhost/"
      THEN <<RENDER_URL, IF path # "" THEN <<"/api/", path>> ELSE <<"/api/data">> >>
      ELSE <<base, IF path # "" THEN <<"/api/", path>> ELSE <<"/api/data">> >>

\* What the device (or the network) may answer to one GET attempt
GetOutcomes == {"fail", "non200", "badjson", "ok"}

\* What may come back from one POST /api/control attempt: no answer at all, a
\* non-200 status, or HTTP 200 with a JSON body (success true, success false, no
\* success key) or a body that is not JSON
PostOutcomes == {"fail", "non200", "json_true", "json_false", "json_nokey", "nonjson"}

(***************************************************************************)
(* Threads: the polling thread of nodemcu_manager ("pw"), the reader       *)
(* thread of app.py ("nr"), the training thread of weather_predictor       *)
(* ("at") and a request handler ("http").                                  *)
(***************************************************************************)
Threads == {"pw", "nr", "at", "http"}

T0 == [pc |-> "off", wake |-> 0, start |-> 0,
       url |-> None, force |-> FALSE, gretry |-> 0, nget |-> 0, g200 |-> FALSE,
       gval |-> None, gwhy |-> "none", gto |-> "none",
       act |-> "none", sretry |-> 0, npost |-> 0, cur |-> None, sres |-> "none",
       acc |-> FALSE, pout |-> "none", sto |-> "none",
       ctime |-> 0, cto |-> "none", cout |-> "none",
       count |-> 0, data_count |-> 0, accuracy |-> 0, tto |-> "none", tres |-> "none",
       reply |-> "none"]

Set(t, s) == th' = [th EXCEPT ![t] = s]

\* whether a database call succeeds
DbResults(flaky) == IF flaky THEN BOOLEAN ELSE {TRUE}

(***************************************************************************)
(* get_nodemcu_data(force_refresh)                                         *)
(***************************************************************************)
GetCall(s, force, to) ==
    [s EXCEPT !.pc = "get_entry", !.force = force, !.gto = to, !.gretry = 0,
              !.url = None,
              !.nget = 0, !.g200 = FALSE, !.gval = None, !.gwhy = "none"]

\* a return that hands out the cached reading when there is no fetched one
GetReturn_PreferCache(s, val, why) ==
    [s EXCEPT !.pc = s.gto, !.gval = IF IsNone(val) THEN latest_polled_data ELSE val,
              !.gwhy = why, !.force = FALSE, !.url = None,
              !.gretry = 0, !.g200 = FALSE, !.gto = "none"]

\* the return statements of lines 74, 128, 144 and 151
GetReturn(s, val, why) ==
    [s EXCEPT !.pc = s.gto, !.gval = val, !.gwhy = why, !.force = FALSE,
              !.url = None, !.gretry = 0, !.g200 = FALSE, !.gto = "none"]

\* the freshness test with the window's end counted as fresh
CacheFresh_Inclusive(cache, t, interval) ==
    /\ ~IsNone(cache)
    /\ Val(cache).ts # BadTs
    /\ t - ParseTime(Val(cache).ts) <= interval * 2 * TicksPerSec

\* lines 63-77: the cached reading is served when its timestamp parses and is
\* less than two polling intervals old
CacheFresh(cache, t, interval) ==
    /\ ~IsNone(cache)
    /\ Val(cache).ts # BadTs
    /\ t - ParseTime(Val(cache).ts) < interval * 2 * TicksPerSec

\* a loop that runs once more: range(max_retries + 1)
InRange_OneMore(retry, n) == retry <= n

\* for retry in range(max_retries): the loop body runs for this value of retry
InRange(retry, n) == retry < n

\* lines 103-104: a reading without a timestamp gets the local time
\* (at: the clock when the reading arrived, kept for the properties only)
WithTimestamp(r, t) ==
    IF r.ts = AbsentNum THEN [r EXCEPT !.ts = FormatTime(t), !.at = t]
                        ELSE [r EXCEPT !.at = t]

\* lines 119-124 / database.py 31-40: the row save_sensor_data inserts
RowOf(d) == [ldr |-> DictGetNum(d.ldr, 0), rain |-> DictGetNum(d.rain, 0),
             status |-> DictGetStr(d.status, "UNKNOWN")]

GetEntry(t) ==
    /\ th[t].pc = "get_entry"
    /\ IF ~th[t].force /\ CacheFresh(latest_polled_data, now, POLLING_INTERVAL)
         THEN /\ Set(t, GetReturn(th[t], latest_polled_data, "cache"))
              /\ gsrc' = [gsrc EXCEPT ![t] = cache_pending]
         ELSE /\ Set(t, [th[t] EXCEPT !.pc = "get_try",
                                      !.url = get_api_endpoint(use_render, base_url, "")])
              /\ UNCHANGED gsrc
    /\ UNCHANGED <<now, threads_running, setVars, cfgVars, last_auto_command_time,
                   latest_polled_data, cache_pending, dbVars, accepts, pureVars,
                   envVars, mlVars>>

\* a fetch that empties the cache when its last attempt has failed
GetTry_FailureClearsCache(t) ==
    /\ th[t].pc = "get_try"
    /\ InRange(th[t].gretry, max_retries)
    /\ \E o \in get_answers :
         LET s == [th[t] EXCEPT !.nget = @ + 1] IN
         \/ /\ o \in {"fail", "non200"}
            /\ IF InRange(s.gretry + 1, max_retries)
                 THEN /\ Set(t, [s EXCEPT !.gretry = @ + 1])
                      /\ UNCHANGED cacheVars
                 ELSE /\ Set(t, GetReturn(s, None, "exhausted"))
                      /\ latest_polled_data' = None
                      /\ UNCHANGED <<cache_pending, gsrc>>
         \/ /\ o = "badjson"
            /\ Set(t, GetReturn([s EXCEPT !.g200 = TRUE], None, "exception"))
            /\ UNCHANGED cacheVars
         \/ /\ o = "ok"
            /\ \E r \in device :
                 LET data == WithTimestamp(r, now) IN
                 /\ latest_polled_data' = Some(data)
                 /\ cache_pending' = t
                 /\ UNCHANGED gsrc
                 /\ Set(t, [s EXCEPT !.pc = "get_save", !.g200 = TRUE,
                                     !.gval = Some(data)])
    /\ UNCHANGED <<now, threads_running, setVars, cfgVars, last_auto_command_time,
                   dbVars, accepts, pureVars, envVars, mlVars>>

\* lines 89-115 and 129-151: one attempt of the loop, GET /api/data
GetTry(t) ==
    /\ th[t].pc = "get_try"
    /\ InRange(th[t].gretry, max_retries)
    /\ \E o \in get_answers :
         LET s == [th[t] EXCEPT !.nget = @ + 1] IN
         \/ /\ o \in {"fail", "non200"}
            /\ IF InRange(s.gretry + 1, max_retries)
                 THEN Set(t, [s EXCEPT !.gretry = @ + 1])
                 ELSE Set(t, GetReturn(s, None, "exhausted"))
            /\ UNCHANGED cacheVars
         \/ /\ o = "badjson"
            /\ Set(t, GetReturn([s EXCEPT !.g200 = TRUE], None, "exception"))
            /\ UNCHANGED cacheVars
         \/ /\ o = "ok"
            /\ \E r \in device :
                 LET data == WithTimestamp(r, now) IN
                 /\ latest_polled_data' = Some(data)
                 /\ cache_pending' = t
                 /\ UNCHANGED gsrc
                 /\ Set(t, [s EXCEPT !.pc = "get_save", !.g200 = TRUE,
                                     !.gval = Some(data)])
    /\ UNCHANGED <<now, threads_running, setVars, cfgVars, last_auto_command_time,
                   dbVars, accepts, pureVars, envVars, mlVars>>

\* one more row in the table
Inserted(n) == Min(n + 1, MaxRows)

\* a fetch that returns nothing when the insert of its reading has failed
GetSave_FailureReturnsNone(t) ==
    /\ th[t].pc = "get_save"
    /\ \E saved \in DbResults(db_flaky) :
         /\ db_latest' = IF saved THEN Some(RowOf(Val(th[t].gval))) ELSE db_latest
         /\ db_count' = IF saved THEN Inserted(db_count) ELSE db_count
         /\ Set(t, IF saved THEN GetReturn(th[t], th[t].gval, "ok")
                             ELSE GetReturn(th[t], None, "exception"))
    /\ cache_pending' = IF cache_pending = t THEN "none" ELSE cache_pending
    /\ gsrc' = [u \in Threads |-> IF gsrc[u] = t THEN "none" ELSE gsrc[u]]
    /\ UNCHANGED <<now, threads_running, setVars, cfgVars, last_auto_command_time,
                   latest_polled_data, accepts, pureVars, envVars, mlVars>>

\* lines 117-128 (gsrc, cache_pending: kept for the properties only)
GetSave(t) ==
    /\ th[t].pc = "get_save"
    /\ \E saved \in DbResults(db_flaky) :
         /\ db_latest' = IF saved THEN Some(RowOf(Val(th[t].gval))) ELSE db_latest
         /\ db_count' = IF saved THEN Inserted(db_count) ELSE db_count
    /\ cache_pending' = IF cache_pending = t THEN "none" ELSE cache_pending
    /\ gsrc' = [u \in Threads |-> IF gsrc[u] = t THEN "none" ELSE gsrc[u]]
    /\ Set(t, GetReturn(th[t], th[t].gval, "ok"))
    /\ UNCHANGED <<now, threads_running, setVars, cfgVars, last_auto_command_time,
                   latest_polled_data, accepts, pureVars, envVars, mlVars>>

(***************************************************************************)
(* send_command_to_nodemcu(action)                                         *)
(***************************************************************************)
SendCall(s, action, to) ==
    [s EXCEPT !.pc = "send_entry", !.act = action, !.sto = to, !.sretry = 0,
              !.npost = 0, !.cur = None, !.sres = "none", !.acc = FALSE,
              !.pout = "none"]

\* the dict returned: only its "success" entry matters to the callers
SendReturn(s, success) ==
    [s EXCEPT !.pc = s.sto, !.sres = success, !.sretry = 0, !.sto = "none",
              !.wake = 0]

\* line 158
ValidAction(action) == action \in {"open", "close"}

\* the test with a reading that lacks the field taken as connected
NotConnected_AbsentIsConnected(d, render) ==
    DictGetStr(d.connected, "true") # "true" /\ ~render

\* line 173: the reading does not say connected and render mode is off
NotConnected(d, render) == DictGetStr(d.connected, "false") # "true" /\ ~render

\* the status compared as sent, without .upper()
AlreadyThere_CaseSensitive(action, d) ==
    LET current_status == DictGetStr(d.status, "") IN
    \/ action = "open" /\ current_status = OPEN
    \/ action = "close" /\ current_status = CLOSED

\* lines 179-185: the line is already where the action would put it
AlreadyThere(action, d) ==
    LET current_status == Upper(DictGetStr(d.status, "")) IN
    \/ action = "open" /\ current_status = OPEN
    \/ action = "close" /\ current_status = CLOSED

\* lines 212-217: the dict made of the response body
BodyResult(o) ==
    CASE o = "json_true" -> "true"
      [] o = "json_false" -> "false"
      [] o = "json_nokey" -> Absent
      [] OTHER -> "false"

\* the newest two entries of a log
LastTwo(q) == IF Len(q) <= 2 THEN q ELSE SubSeq(q, Len(q) - 1, Len(q))

\* the thread is inside check_auto_conditions
InAuto(s) == s.cto # "none"

\* the entry that asks for the current reading without force_refresh
SendEntry_Unforced(t) ==
    /\ th[t].pc = "send_entry"
    /\ IF ~ValidAction(th[t].act)
         THEN Set(t, SendReturn(th[t], "false"))
         ELSE Set(t, GetCall(th[t], FALSE, "send_after_get"))
    /\ UNCHANGED <<now, threads_running, setVars, cfgVars, last_auto_command_time,
                   cacheVars, dbVars, accepts, pureVars, envVars, mlVars>>

\* lines 158-166: the validation, then get_nodemcu_data(force_refresh=True)
SendEntry(t) ==
    /\ th[t].pc = "send_entry"
    /\ IF ~ValidAction(th[t].act)
         THEN Set(t, SendReturn(th[t], "false"))
         ELSE Set(t, GetCall(th[t], TRUE, "send_after_get"))
    /\ UNCHANGED <<now, threads_running, setVars, cfgVars, last_auto_command_time,
                   cacheVars, dbVars, accepts, pureVars, envVars, mlVars>>

\* a dispatch that gives up when it could not get the current reading
SendAfterGet_NoReadingNoCommand(t) ==
    /\ th[t].pc = "send_after_get"
    /\ LET s == [th[t] EXCEPT !.cur = th[t].gval, !.gval = None, !.gwhy = "none",
                              !.nget = 0] IN
       IF IsNone(s.cur)
         THEN Set(t, SendReturn(s, "false"))
         ELSE IF NotConnected(Val(s.cur), use_render)
                THEN Set(t, SendReturn(s, "false"))
                ELSE IF AlreadyThere(s.act, Val(s.cur))
                       THEN Set(t, SendReturn(s, "true"))
                       ELSE Set(t, [s EXCEPT !.pc = "send_post"])
    /\ UNCHANGED <<now, threads_running, setVars, cfgVars, last_auto_command_time,
                   cacheVars, dbVars, accepts, pureVars, envVars, mlVars>>

\* lines 169-186: what the dispatch does with the reading it asked for
SendAfterGet(t) ==
    /\ th[t].pc = "send_after_get"
    /\ LET s == [th[t] EXCEPT !.cur = th[t].gval, !.gval = None, !.gwhy = "none",
                              !.nget = 0] IN
       IF IsNone(s.cur)
         THEN Set(t, [s EXCEPT !.pc = "send_post"])
         ELSE IF NotConnected(Val(s.cur), use_render)
                THEN Set(t, SendReturn(s, "false"))
                ELSE IF AlreadyThere(s.act, Val(s.cur))
                       THEN Set(t, SendReturn(s, "true"))
                       ELSE Set(t, [s EXCEPT !.pc = "send_post"])
    /\ UNCHANGED <<now, threads_running, setVars, cfgVars, last_auto_command_time,
                   cacheVars, dbVars, accepts, pureVars, envVars, mlVars>>

\* the loop left at the first attempt that fails
SendPost_GivesUpAtOnce(t) ==
    /\ th[t].pc = "send_post"
    /\ InRange(th[t].sretry, max_retries)
    /\ \E o \in post_answers :
         LET s == [th[t] EXCEPT !.npost = @ + 1, !.pout = o] IN
         \/ /\ o \in {"fail", "non200"}
            /\ Set(t, SendReturn(s, "false"))
            /\ UNCHANGED accepts
         \/ /\ o \in {"json_true", "json_false", "json_nokey", "nonjson"}
            /\ Set(t, [s EXCEPT !.pc = "send_sleep", !.sres = BodyResult(o),
                                !.acc = (o = "json_true"),
                                !.wake = now + TicksPerSec])
            /\ accepts' = IF InAuto(s) /\ o = "json_true"
                            THEN LastTwo(Append(accepts, now)) ELSE accepts
    /\ UNCHANGED <<now, threads_running, setVars, cfgVars, last_auto_command_time,
                   cacheVars, dbVars, pureVars, envVars, mlVars>>

\* lines 194-244: one attempt of the loop, POST /api/control?action=...
SendPost(t) ==
    /\ th[t].pc = "send_post"
    /\ InRange(th[t].sretry, max_retries)
    /\ \E o \in post_answers :
         LET s == [th[t] EXCEPT !.npost = @ + 1, !.pout = o] IN
         \/ /\ o \in {"fail", "non200"}
            /\ IF InRange(s.sretry + 1, max_retries)
                 THEN Set(t, [s EXCEPT !.sretry = @ + 1])
                 ELSE Set(t, SendReturn(s, "false"))
            /\ UNCHANGED accepts
         \/ /\ o \in {"json_true", "json_false", "json_nokey", "nonjson"}
            /\ Set(t, [s EXCEPT !.pc = "send_sleep", !.sres = BodyResult(o),
                                !.acc = (o = "json_true"),
                                !.wake = now + TicksPerSec])
            /\ accepts' = IF InAuto(s) /\ o = "json_true"
                            THEN LastTwo(Append(accepts, now)) ELSE accepts
    /\ UNCHANGED <<now, threads_running, setVars, cfgVars, last_auto_command_time,
                   cacheVars, dbVars, pureVars, envVars, mlVars>>

\* lines 223-224: time.sleep(1), then the refresh
SendSleep(t) ==
    /\ th[t].pc = "send_sleep"
    /\ now >= th[t].wake
    /\ Set(t, GetCall([th[t] EXCEPT !.wake = 0], TRUE, "send_after_refresh"))
    /\ UNCHANGED <<now, threads_running, setVars, cfgVars, last_auto_command_time,
                   cacheVars, dbVars, accepts, pureVars, envVars, mlVars>>

\* the end of a dispatch that records the time of the command itself
SendAfterRefresh_Stamps(t) ==
    /\ th[t].pc = "send_after_refresh"
    /\ last_auto_command_time' = now
    /\ Set(t, SendReturn([th[t] EXCEPT !.gval = None, !.gwhy = "none", !.nget = 0],
                         th[t].sres))
    /\ UNCHANGED <<now, threads_running, setVars, cfgVars,
                   cacheVars, dbVars, accepts, pureVars, envVars, mlVars>>

\* lines 224-226: the refresh is over, the result of the POST is returned
SendAfterRefresh(t) ==
    /\ th[t].pc = "send_after_refresh"
    /\ Set(t, SendReturn([th[t] EXCEPT !.gval = None, !.gwhy = "none", !.nget = 0],
                         th[t].sres))
    /\ UNCHANGED <<now, threads_running, setVars, cfgVars, last_auto_command_time,
                   cacheVars, dbVars, accepts, pureVars, envVars, mlVars>>

(***************************************************************************)
(* check_auto_conditions()                                                 *)
(***************************************************************************)
LIGHT_HYSTERESIS == 50
RAIN_HYSTERESIS == 50

\* the conditions with is_raining as rain >= rain_threshold
AutoDecision_RainInclusive(ldr, rain, status, light_threshold, rain_threshold) ==
    LET is_raining == rain >= rain_threshold
        is_dark == ldr < (light_threshold - LIGHT_HYSTERESIS)
        is_bright == ldr > (light_threshold + LIGHT_HYSTERESIS)
        is_dry == rain < (rain_threshold - RAIN_HYSTERESIS)
    IN  IF (is_raining \/ is_dark) /\ status = OPEN THEN "close"
        ELSE IF is_bright /\ is_dry /\ status = CLOSED THEN "open"
        ELSE "none"

\* the conditions with the two light buffers exchanged, so that the bands of
\* dark and bright overlap
AutoDecision_BandInverted(ldr, rain, status, light_threshold, rain_threshold) ==
    LET is_raining == rain > rain_threshold
        is_dark == ldr < (light_threshold + LIGHT_HYSTERESIS)
        is_bright == ldr > (light_threshold - LIGHT_HYSTERESIS)
        is_dry == rain < (rain_threshold - RAIN_HYSTERESIS)
    IN  IF (is_raining \/ is_dark) /\ status = OPEN THEN "close"
        ELSE IF is_bright /\ is_dry /\ status = CLOSED THEN "open"
        ELSE "none"

\* lines 362-365, 379-395: the command the conditions call for
AutoDecision(ldr, rain, status, light_threshold, rain_threshold) ==
    LET is_raining == rain > rain_threshold
        is_dark == ldr < (light_threshold - LIGHT_HYSTERESIS)
        is_bright == ldr > (light_threshold + LIGHT_HYSTERESIS)
        is_dry == rain < (rain_threshold - RAIN_HYSTERESIS)
    IN  IF (is_raining \/ is_dark) /\ status = OPEN THEN "close"
        ELSE IF is_bright /\ is_dry /\ status = CLOSED THEN "open"
        ELSE "none"

\* the cooldown test with <= for <
CooldownActive_Inclusive(current_time, last, cooldown) ==
    current_time - last <= cooldown * TicksPerSec

\* line 373, times in ticks and the cooldown in seconds
CooldownActive(current_time, last, cooldown) ==
    current_time - last < cooldown * TicksPerSec

\* line 348
Settled(status) == status \in {CLOSED, OPEN}

\* the values with the status of an open line where the reading has none
ValuesOf_OpenByDefault(d) ==
    [ldr |-> DictGetNum(d.ldr, 0), rain |-> DictGetNum(d.rain, 0),
     status |-> Upper(DictGetStr(d.status, OPEN))]

\* lines 329-331 and 341-343: the values the check works on
ValuesOf(d) == [ldr |-> DictGetNum(d.ldr, 0), rain |-> DictGetNum(d.rain, 0),
                status |-> Upper(DictGetStr(d.status, ""))]

\* lines 348-395: what the check decides to send
Decide(v, light_threshold, rain_threshold, current_time, last, cooldown) ==
    IF ~Settled(v.status) THEN "none"
    ELSE IF CooldownActive(current_time, last, cooldown) THEN "none"
    ELSE AutoDecision(v.ldr, v.rain, v.status, light_threshold, rain_threshold)

\* the branch that ended the check without a command (its log line)
WhyNone(v, current_time, last, cooldown) ==
    IF ~Settled(v.status) THEN "moving"
    ELSE IF CooldownActive(current_time, last, cooldown) THEN "cooldown"
    ELSE "noaction"

\* lines 383-384 and 391-392: result.get('success', False)
Succeeded(sres) == DictGetStr(sres, "false") = "true"

CacCall(s, to) == [s EXCEPT !.pc = "cac_entry", !.cto = to, !.cout = "none"]

CacReturn(s, why) ==
    [s EXCEPT !.pc = s.cto, !.cto = "none", !.cout = why, !.ctime = 0,
              !.act = "none", !.npost = 0, !.cur = None, !.sres = "none",
              !.acc = FALSE, !.pout = "none", !.gval = None, !.gwhy = "none", !.nget = 0]

\* the check without its test of the enabled flag
CacEntry_IgnoresFlag(t) ==
    /\ th[t].pc = "cac_entry"
    /\ Set(t, GetCall(th[t], FALSE, "cac_after_get"))
    /\ UNCHANGED <<now, threads_running, setVars, cfgVars, last_auto_command_time,
                   cacheVars, dbVars, accepts, pureVars, envVars, mlVars>>

\* lines 318-325
CacEntry(t) ==
    /\ th[t].pc = "cac_entry"
    /\ IF ~enabled
         THEN Set(t, CacReturn(th[t], "disabled"))
         ELSE Set(t, GetCall(th[t], FALSE, "cac_after_get"))
    /\ UNCHANGED <<now, threads_running, setVars, cfgVars, last_auto_command_time,
                   cacheVars, dbVars, accepts, pureVars, envVars, mlVars>>

\* the check without its fall back on the latest row of the table
CacAfterGet_NoFallback(t) ==
    /\ th[t].pc = "cac_after_get"
    /\ LET s == th[t]
           src == s.gval
           v == ValuesOf(Val(src))
           d == Decide(v, lightThreshold, rainThreshold, now,
                       last_auto_command_time, command_cooldown)
       IN  IF IsNone(src)
             THEN Set(t, CacReturn(s, "nodata"))
             ELSE IF d = "none"
               THEN Set(t, CacReturn(s, WhyNone(v, now, last_auto_command_time,
                                                command_cooldown)))
               ELSE Set(t, SendCall([s EXCEPT !.ctime = now, !.gval = None,
                                              !.gwhy = "none", !.nget = 0],
                                    d, "cac_after_send"))
    /\ UNCHANGED <<now, threads_running, setVars, cfgVars, last_auto_command_time,
                   cacheVars, dbVars, accepts, pureVars, envVars, mlVars>>

\* lines 327-395, up to the call of send_command_to_nodemcu (the outcome
\* "dberror" stands for the skip after get_latest_data printed its error: the
\* check itself logs the same line as for an empty table)
CacAfterGet(t) ==
    /\ th[t].pc = "cac_after_get"
    /\ \E dbok \in (IF IsNone(th[t].gval) THEN DbResults(db_flaky) ELSE {TRUE}) :
         LET s == th[t]
             row == IF dbok THEN db_latest ELSE None
             src == IF ~IsNone(s.gval) THEN s.gval ELSE row
             v == ValuesOf(Val(src))
             d == Decide(v, lightThreshold, rainThreshold, now,
                         last_auto_command_time, command_cooldown)
         IN  IF IsNone(src)
               THEN Set(t, CacReturn(s, IF dbok THEN "nodata" ELSE "dberror"))
               ELSE IF d = "none"
                 THEN Set(t, CacReturn(s, WhyNone(v, now, last_auto_command_time,
                                                  command_cooldown)))
                 ELSE Set(t, SendCall([s EXCEPT !.ctime = now, !.gval = None,
                                                !.gwhy = "none", !.nget = 0],
                                      d, "cac_after_send"))
    /\ UNCHANGED <<now, threads_running, setVars, cfgVars, last_auto_command_time,
                   cacheVars, dbVars, accepts, pureVars, envVars, mlVars>>

\* the time recorded whatever the result of the send
CacAfterSend_AlwaysStamps(t) ==
    /\ th[t].pc = "cac_after_send"
    /\ last_auto_command_time' = th[t].ctime
    /\ Set(t, CacReturn(th[t], IF ~Succeeded(th[t].sres) THEN "failed"
                               ELSE IF th[t].npost = 0 THEN "noop" ELSE "accepted"))
    /\ UNCHANGED <<now, threads_running, setVars, cfgVars,
                   cacheVars, dbVars, accepts, pureVars, envVars, mlVars>>

\* lines 382-385 and 390-393
CacAfterSend(t) ==
    /\ th[t].pc = "cac_after_send"
    /\ last_auto_command_time' =
         IF Succeeded(th[t].sres) THEN th[t].ctime ELSE last_auto_command_time
    /\ Set(t, CacReturn(th[t], IF ~Succeeded(th[t].sres) THEN "failed"
                               ELSE IF th[t].npost = 0 THEN "noop" ELSE "accepted"))
    /\ UNCHANGED <<now, threads_running, setVars, cfgVars,
                   cacheVars, dbVars, accepts, pureVars, envVars, mlVars>>

(***************************************************************************)
(* polling_worker(), the thread "pw"                                       *)
(***************************************************************************)
\* the 0.1 of line 444 in whole ticks
MinSleep == TicksPerSec \div 10

\* line 444, in ticks
SleepTime(interval, elapsed) == Max(MinSleep, interval * TicksPerSec - elapsed)

\* lines 430-436
PwTop ==
    /\ th["pw"].pc = "pw_top"
    /\ IF ~threads_running
         THEN Set("pw", [th["pw"] EXCEPT !.pc = "done"])
         ELSE Set("pw", GetCall([th["pw"] EXCEPT !.start = now], TRUE, "pw_after_get"))
    /\ UNCHANGED <<now, threads_running, setVars, cfgVars, last_auto_command_time,
                   cacheVars, dbVars, accepts, pureVars, envVars, mlVars>>

\* a loop that ends when its fetch brought nothing
PwAfterGet_StopsOnFailure ==
    /\ th["pw"].pc = "pw_after_get"
    /\ LET s == [th["pw"] EXCEPT !.gval = None, !.gwhy = "none", !.nget = 0] IN
       IF IsNone(th["pw"].gval)
         THEN Set("pw", [s EXCEPT !.pc = "done"])
         ELSE IF enabled
                THEN Set("pw", CacCall(s, "pw_sleep"))
                ELSE Set("pw", [s EXCEPT !.pc = "pw_sleep"])
    /\ UNCHANGED <<now, threads_running, setVars, cfgVars, last_auto_command_time,
                   cacheVars, dbVars, accepts, pureVars, envVars, mlVars>>

\* lines 439-440
PwAfterGet ==
    /\ th["pw"].pc = "pw_after_get"
    /\ LET s == [th["pw"] EXCEPT !.gval = None, !.gwhy = "none", !.nget = 0] IN
       IF enabled
         THEN Set("pw", CacCall(s, "pw_sleep"))
         ELSE Set("pw", [s EXCEPT !.pc = "pw_sleep"])
    /\ UNCHANGED <<now, threads_running, setVars, cfgVars, last_auto_command_time,
                   cacheVars, dbVars, accepts, pureVars, envVars, mlVars>>

\* lines 443-447
PwSleep ==
    /\ th["pw"].pc = "pw_sleep"
    /\ Set("pw", [th["pw"] EXCEPT
                    !.pc = "pw_wait", !.start = 0, !.cout = "none",
                    !.wake = now + SleepTime(POLLING_INTERVAL, now - th["pw"].start)])
    /\ UNCHANGED <<now, threads_running, setVars, cfgVars, last_auto_command_time,
                   cacheVars, dbVars, accepts, pureVars, envVars, mlVars>>

PwWake ==
    /\ th["pw"].pc = "pw_wait"
    /\ now >= th["pw"].wake
    /\ Set("pw", [th["pw"] EXCEPT !.pc = "pw_top", !.wake = 0])
    /\ UNCHANGED <<now, threads_running, setVars, cfgVars, last_auto_command_time,
                   cacheVars, dbVars, accepts, pureVars, envVars, mlVars>>

(***************************************************************************)
(* app.nodemcu_reader(), the thread "nr"                                   *)
(***************************************************************************)
\* app.py lines 57-60 (start: when the iteration began, kept for the properties
\* only; the reader does not measure it)
NrTop ==
    /\ th["nr"].pc = "nr_top"
    /\ IF ~threads_running
         THEN Set("nr", [th["nr"] EXCEPT !.pc = "done"])
         ELSE Set("nr", GetCall([th["nr"] EXCEPT !.start = now], FALSE, "nr_after_get"))
    /\ UNCHANGED <<now, threads_running, setVars, cfgVars, last_auto_command_time,
                   cacheVars, dbVars, accepts, pureVars, envVars, mlVars>>

\* app.py lines 63-75: the reader saves the reading it got (again)
NrAfterGet ==
    /\ th["nr"].pc = "nr_after_get"
    /\ \E saved \in (IF IsNone(th["nr"].gval) THEN {FALSE} ELSE DbResults(db_flaky)) :
         /\ db_latest' = IF saved THEN Some(RowOf(Val(th["nr"].gval))) ELSE db_latest
         /\ db_count' = IF saved THEN Inserted(db_count) ELSE db_count
    /\ LET w == IF ~IsNone(th["nr"].gval) /\ th["nr"].gwhy = "cache"
                  THEN gsrc["nr"] ELSE "none" IN
         /\ gsrc' = [u \in Threads |-> IF gsrc[u] = w THEN "none" ELSE gsrc[u]]
         /\ cache_pending' = IF cache_pending = w THEN "none" ELSE cache_pending
    /\ Set("nr", [th["nr"] EXCEPT !.pc = "nr_check", !.gval = None, !.gwhy = "none",
                                  !.nget = 0])
    /\ UNCHANGED <<now, threads_running, setVars, cfgVars, last_auto_command_time,
                   latest_polled_data, accepts, pureVars, envVars, mlVars>>

\* app.py lines 78-79
NrCheck ==
    /\ th["nr"].pc = "nr_check"
    /\ IF enabled
         THEN Set("nr", CacCall(th["nr"], "nr_sleep"))
         ELSE Set("nr", [th["nr"] EXCEPT !.pc = "nr_sleep"])
    /\ UNCHANGED <<now, threads_running, setVars, cfgVars, last_auto_command_time,
                   cacheVars, dbVars, accepts, pureVars, envVars, mlVars>>

\* app.py line 84
NrSleep ==
    /\ th["nr"].pc = "nr_sleep"
    /\ Set("nr", [th["nr"] EXCEPT !.pc = "nr_wait", !.cout = "none", !.start = 0,
                                  !.wake = now + polling_interval * TicksPerSec])
    /\ UNCHANGED <<now, threads_running, setVars, cfgVars, last_auto_command_time,
                   cacheVars, dbVars, accepts, pureVars, envVars, mlVars>>

NrWake ==
    /\ th["nr"].pc = "nr_wait"
    /\ now >= th["nr"].wake
    /\ Set("nr", [th["nr"] EXCEPT !.pc = "nr_top", !.wake = 0])
    /\ UNCHANGED <<now, threads_running, setVars, cfgVars, last_auto_command_time,
                   cacheVars, dbVars, accepts, pureVars, envVars, mlVars>>

(***************************************************************************)
(* app.send_command(), POST /send_command, on the thread "http"            *)
(***************************************************************************)
\* app.py lines 145-147
HttpSendCommand ==
    /\ th["http"].pc = "idle"
    /\ \E command \in {"open", "close", "stop"} :
         Set("http", SendCall([th["http"] EXCEPT !.reply = "none"], command,
                              "http_reply"))
    /\ UNCHANGED <<now, threads_running, setVars, cfgVars, last_auto_command_time,
                   cacheVars, dbVars, accepts, pureVars, envVars, mlVars>>

\* app.py line 148
HttpReply ==
    /\ th["http"].pc = "http_reply"
    /\ Set("http", [th["http"] EXCEPT !.pc = "idle", !.reply = "success",
                                      !.cur = None])
    /\ UNCHANGED <<now, threads_running, setVars, cfgVars, last_auto_command_time,
                   cacheVars, dbVars, accepts, pureVars, envVars, mlVars>>

(***************************************************************************)
(* WeatherPredictor.train() and save_model(), models/weather_predictor.py  *)
(***************************************************************************)
\* line 25
window_size == 3

\* the accuracies model.score may report, in percent
Accuracies == {50, 100}

\* str(value) of a number
Str(x) == <<"str", x>>

\* database.py lines 101-113: the count, or 0 when the query fails
get_data_count(ok, n) == IF ok THEN n ELSE 0

\* database.py lines 134-146: the number of rows fetched, none when the query fails
RowsFetched(ok, n) == IF ok THEN n ELSE 0

\* the test against the window alone, without the ten rows on top
TooFew_WithoutMargin(n, window) == n < window

\* lines 109 and 167, app.py line 166
TooFew(n, window) == n < window + 10

TrainCall(s, to) ==
    [s EXCEPT !.pc = "train_count", !.tto = to, !.tres = "none", !.data_count = 0,
              !.accuracy = 0]

\* lines 214-216: the exception goes to the caller
TrainRaise(s) ==
    [s EXCEPT !.pc = s.tto, !.tto = "none", !.tres = "error", !.data_count = 0,
              !.accuracy = 0]

\* line 213
TrainReturn(s) ==
    [s EXCEPT !.pc = s.tto, !.tto = "none", !.tres = "ok", !.data_count = 0,
              !.accuracy = 0]

\* lines 164-168
TrainCount(t) ==
    /\ th[t].pc = "train_count"
    /\ \E ok \in DbResults(db_flaky) :
         LET n == get_data_count(ok, db_count) IN
         IF TooFew(n, window_size)
           THEN Set(t, TrainRaise(th[t]))
           ELSE Set(t, [th[t] EXCEPT !.pc = "train_load", !.data_count = n])
    /\ UNCHANGED <<now, threads_running, setVars, cfgVars, last_auto_command_time,
                   cacheVars, dbVars, accepts, pureVars, envVars, mlVars>>

\* line 171, load_training_data lines 105-110
TrainLoad(t) ==
    /\ th[t].pc = "train_load"
    /\ \E ok \in DbResults(db_flaky) :
         IF TooFew(RowsFetched(ok, db_count), window_size)
           THEN Set(t, TrainRaise(th[t]))
           ELSE Set(t, [th[t] EXCEPT !.pc = "train_fit"])
    /\ UNCHANGED <<now, threads_running, setVars, cfgVars, last_auto_command_time,
                   cacheVars, dbVars, accepts, pureVars, envVars, mlVars>>

\* lines 174-191: preprocessing and the fit, which may raise
TrainFit(t) ==
    /\ th[t].pc = "train_fit"
    /\ \E ok \in BOOLEAN :
         IF ok THEN Set(t, [th[t] EXCEPT !.pc = "train_save"])
               ELSE Set(t, TrainRaise(th[t]))
    /\ UNCHANGED <<now, threads_running, setVars, cfgVars, last_auto_command_time,
                   cacheVars, dbVars, accepts, pureVars, envVars, mlVars>>

\* line 194, save_model lines 277-293: the files are written, which may raise,
\* and then the flag is set
TrainSave(t) ==
    /\ th[t].pc = "train_save"
    /\ \E ok \in BOOLEAN :
         IF ok
           THEN /\ MODEL_INFO' = [MODEL_INFO EXCEPT !.trained = TRUE]
                /\ Set(t, [th[t] EXCEPT !.pc = "train_save_setting"])
           ELSE /\ UNCHANGED MODEL_INFO
                /\ Set(t, TrainRaise(th[t]))
    /\ UNCHANGED <<now, threads_running, setVars, cfgVars, last_auto_command_time,
                   cacheVars, dbVars, accepts, pureVars, envVars, settings>>

\* config.py lines 100-113: the row written, unless the write fails
save_setting(store, key, value, ok) ==
    IF ok THEN [store EXCEPT ![key] = Some(value)] ELSE store

\* save_model line 294
TrainSaveSetting(t) ==
    /\ th[t].pc = "train_save_setting"
    /\ \E ok \in DbResults(db_flaky) :
         settings' = save_setting(settings, "model_trained", "True", ok)
    /\ Set(t, [th[t] EXCEPT !.pc = "train_score"])
    /\ UNCHANGED <<now, threads_running, setVars, cfgVars, last_auto_command_time,
                   cacheVars, dbVars, accepts, pureVars, envVars, MODEL_INFO>>

\* lines 197-200
TrainScore(t) ==
    /\ th[t].pc = "train_score"
    /\ \E a \in Accuracies :
         Set(t, [th[t] EXCEPT !.pc = "train_update", !.accuracy = a])
    /\ UNCHANGED <<now, threads_running, setVars, cfgVars, last_auto_command_time,
                   cacheVars, dbVars, accepts, pureVars, envVars, mlVars>>

\* a completion that leaves the time of training as it was
TrainUpdate_KeepsTime(t) ==
    /\ th[t].pc = "train_update"
    /\ MODEL_INFO' = [MODEL_INFO EXCEPT !.trained = TRUE,
                                        !.accuracy = Some(th[t].accuracy)]
    /\ Set(t, [th[t] EXCEPT !.pc = "train_set_trained"])
    /\ UNCHANGED <<now, threads_running, setVars, cfgVars, last_auto_command_time,
                   cacheVars, dbVars, accepts, pureVars, envVars, settings>>

\* lines 203-205
TrainUpdate(t) ==
    /\ th[t].pc = "train_update"
    /\ MODEL_INFO' = [trained |-> TRUE, lastTraining |-> Some(FormatTime(now)),
                      accuracy |-> Some(th[t].accuracy)]
    /\ Set(t, [th[t] EXCEPT !.pc = "train_set_trained"])
    /\ UNCHANGED <<now, threads_running, setVars, cfgVars, last_auto_command_time,
                   cacheVars, dbVars, accepts, pureVars, envVars, settings>>

\* lines 208-210, one call of save_setting a step
TrainPersist(t) ==
    /\ th[t].pc \in {"train_set_trained", "train_set_last", "train_set_accuracy"}
    /\ \E ok \in DbResults(db_flaky) :
         CASE th[t].pc = "train_set_trained" ->
                /\ settings' = save_setting(settings, "model_trained", "True", ok)
                /\ Set(t, [th[t] EXCEPT !.pc = "train_set_last"])
           [] th[t].pc = "train_set_last" ->
                /\ settings' = save_setting(settings, "model_last_training",
                                            Val(MODEL_INFO.lastTraining), ok)
                /\ Set(t, [th[t] EXCEPT !.pc = "train_set_accuracy"])
           [] OTHER ->
                /\ settings' = save_setting(settings, "model_accuracy",
                                            Str(th[t].accuracy), ok)
                /\ Set(t, TrainReturn(th[t]))
    /\ UNCHANGED <<now, threads_running, setVars, cfgVars, last_auto_command_time,
                   cacheVars, dbVars, accepts, pureVars, envVars, MODEL_INFO>>

(***************************************************************************)
(* auto_train_model_thread(), the thread "at"                              *)
(***************************************************************************)
\* the test with > for >=
EnoughData_Strict(n, window) == n > window + 10

\* line 310
EnoughData(n, window) == n >= window + 10

\* line 304: the scheduler as a loop that never looks at the flag
AtTop_IgnoresFlag ==
    /\ th["at"].pc = "at_top"
    /\ Set("at", [th["at"] EXCEPT !.pc = "at_count"])
    /\ UNCHANGED <<now, threads_running, setVars, cfgVars, last_auto_command_time,
                   cacheVars, dbVars, accepts, pureVars, envVars, mlVars>>

\* line 304
AtTop ==
    /\ th["at"].pc = "at_top"
    /\ IF ~threads_running
         THEN Set("at", [th["at"] EXCEPT !.pc = "done"])
         ELSE Set("at", [th["at"] EXCEPT !.pc = "at_count"])
    /\ UNCHANGED <<now, threads_running, setVars, cfgVars, last_auto_command_time,
                   cacheVars, dbVars, accepts, pureVars, envVars, mlVars>>

\* line 308
AtCount ==
    /\ th["at"].pc = "at_count"
    /\ \E ok \in DbResults(db_flaky) :
         Set("at", [th["at"] EXCEPT !.pc = "at_check",
                                    !.count = get_data_count(ok, db_count)])
    /\ UNCHANGED <<now, threads_running, setVars, cfgVars, last_auto_command_time,
                   cacheVars, dbVars, accepts, pureVars, envVars, mlVars>>

\* lines 310-315
AtCheck ==
    /\ th["at"].pc = "at_check"
    /\ IF EnoughData(th["at"].count, window_size)
         THEN Set("at", TrainCall(th["at"], "at_after_train"))
         ELSE Set("at", [th["at"] EXCEPT !.pc = "at_sleep", !.tres = "none"])
    /\ UNCHANGED <<now, threads_running, setVars, cfgVars, last_auto_command_time,
                   cacheVars, dbVars, accepts, pureVars, envVars, mlVars>>

\* the scheduler with no handler around the training
AtAfterTrain_Propagates ==
    /\ th["at"].pc = "at_after_train"
    /\ Set("at", [th["at"] EXCEPT !.pc = IF th["at"].tres = "error" THEN "done"
                                         ELSE "at_sleep"])
    /\ UNCHANGED <<now, threads_running, setVars, cfgVars, last_auto_command_time,
                   cacheVars, dbVars, accepts, pureVars, envVars, mlVars>>

\* lines 313 and 316-317: the result, or the exception, is logged
AtAfterTrain ==
    /\ th["at"].pc = "at_after_train"
    /\ Set("at", [th["at"] EXCEPT !.pc = "at_sleep"])
    /\ UNCHANGED <<now, threads_running, setVars, cfgVars, last_auto_command_time,
                   cacheVars, dbVars, accepts, pureVars, envVars, mlVars>>

\* line 320 (tres: how the last training ended, kept for the properties only)
AtSleep ==
    /\ th["at"].pc = "at_sleep"
    /\ Set("at", [th["at"] EXCEPT !.pc = "at_wait", !.count = 0,
                                  !.wake = now + training_interval * TicksPerSec])
    /\ UNCHANGED <<now, threads_running, setVars, cfgVars, last_auto_command_time,
                   cacheVars, dbVars, accepts, pureVars, envVars, mlVars>>

AtWake ==
    /\ th["at"].pc = "at_wait"
    /\ now >= th["at"].wake
    /\ Set("at", [th["at"] EXCEPT !.pc = "at_top", !.wake = 0])
    /\ UNCHANGED <<now, threads_running, setVars, cfgVars, last_auto_command_time,
                   cacheVars, dbVars, accepts, pureVars, envVars, mlVars>>

(***************************************************************************)
(* app.handle_train(), POST /train-model, and app.force_train_model(),     *)
(* GET /force-train-model, on the thread "http"                            *)
(***************************************************************************)
\* app.py lines 161-169
HttpTrainModel ==
    /\ th["http"].pc = "idle"
    /\ \E ok \in DbResults(db_flaky) :
         LET s == [th["http"] EXCEPT !.reply = "none", !.tres = "none",
                                     !.count = get_data_count(ok, db_count)] IN
         IF TooFew(s.count, window_size)
           THEN Set("http", [s EXCEPT !.reply = "400"])
           ELSE Set("http", TrainCall(s, "http_after_train"))
    /\ UNCHANGED <<now, threads_running, setVars, cfgVars, last_auto_command_time,
                   cacheVars, dbVars, accepts, pureVars, envVars, mlVars>>

\* app.py lines 369-370
HttpForceTrain ==
    /\ th["http"].pc = "idle"
    /\ Set("http", TrainCall([th["http"] EXCEPT !.reply = "none", !.tres = "none",
                                                !.count = 0],
                             "http_after_train"))
    /\ UNCHANGED <<now, threads_running, setVars, cfgVars, last_auto_command_time,
                   cacheVars, dbVars, accepts, pureVars, envVars, mlVars>>

\* app.py lines 170-175 and 371-378
HttpAfterTrain ==
    /\ th["http"].pc = "http_after_train"
    /\ Set("http", [th["http"] EXCEPT !.pc = "idle",
                                      !.reply = IF th["http"].tres = "ok" THEN "200"
                                                ELSE "500"])
    /\ UNCHANGED <<now, threads_running, setVars, cfgVars, last_auto_command_time,
                   cacheVars, dbVars, accepts, pureVars, envVars, mlVars>>

(***************************************************************************)
(* The environment: the clock, the operator, shutdown.                     *)
(***************************************************************************)
Tick ==
    /\ now < StartTime + horizon
    /\ now' = now + 1
    /\ UNCHANGED <<threads_running, setVars, cfgVars, last_auto_command_time,
                   cacheVars, dbVars, th, accepts, pureVars, envVars, mlVars>>

\* app.py lines 295-297 (POST /save-auto-settings): the operator switches auto mode
SaveAutoSettings ==
    /\ enabled' \in BOOLEAN
    /\ enabled' # enabled
    /\ UNCHANGED <<now, threads_running, lightThreshold, rainThreshold, cfgVars,
                   last_auto_command_time, cacheVars, dbVars, th,
                   accepts, pureVars, envVars, mlVars>>

\* stop_polling line 419, app.py line 463
StopThreads ==
    /\ threads_running
    /\ threads_running' = FALSE
    /\ UNCHANGED <<now, setVars, cfgVars, last_auto_command_time,
                   cacheVars, dbVars, th, accepts, pureVars, envVars, mlVars>>

(***************************************************************************)
(* Specifications.                                                         *)
(***************************************************************************)
InitShared ==
    /\ now = StartTime
    /\ threads_running = TRUE
    /\ lightThreshold = 500
    /\ rainThreshold = 500
    /\ POLLING_INTERVAL \in ConfigPollingIntervals
    /\ polling_interval \in PollChoices
    /\ command_cooldown \in CooldownChoices
    /\ last_auto_command_time = 0
    /\ latest_polled_data = None
    /\ cache_pending = "none"
    /\ gsrc = [t \in Threads |-> "none"]
    /\ training_interval \in TrainingChoices
    /\ MODEL_INFO = [trained |-> FALSE, lastTraining |-> None, accuracy |-> None]
    /\ settings = [model_trained |-> None, model_last_training |-> None,
                   model_accuracy |-> None]
    /\ accepts = <<>>

\* table sensor_data of a fresh installation
EmptyDb ==
    /\ db_latest = None
    /\ db_count = 0

\* table sensor_data after a long run: MaxRows rows or more, the newest from r
FullDb(r) ==
    /\ db_latest = Some(RowOf(r))
    /\ db_count = MaxRows

Started(t) == [T0 EXCEPT !.pc = CASE t = "pw" -> "pw_top"
                                   [] t = "nr" -> "nr_top"
                                   [] t = "at" -> "at_top"
                                   [] OTHER -> "idle"]

Call(t) ==
    \/ GetEntry(t) \/ GetTry(t) \/ GetSave(t)
    \/ SendEntry(t) \/ SendAfterGet(t) \/ SendPost(t) \/ SendSleep(t)
    \/ SendAfterRefresh(t)
    \/ CacEntry(t) \/ CacAfterGet(t) \/ CacAfterSend(t)

\* no pure function is under study
NoArgs ==
    /\ arg = <<>>
    /\ res = "unset"

\* The deployment under gunicorn: only the polling thread runs
InitPolling ==
    /\ InitShared
    /\ EmptyDb
    /\ NoArgs
    /\ enabled = TRUE
    /\ use_render = FALSE
    /\ base_url = DEVICE_URL
    /\ max_retries \in 1..MaxRetries
    /\ device = AutoDevice
    /\ horizon = Horizon
    /\ get_answers = GetOutcomes
    /\ post_answers = PostOutcomes
    /\ db_flaky = TRUE
    /\ th = [t \in Threads |-> IF t = "pw" THEN Started(t) ELSE T0]

NextPolling ==
    \/ Tick
    \/ PwTop \/ PwAfterGet \/ PwSleep \/ PwWake
    \/ Call("pw")

SpecPolling == InitPolling /\ [][NextPolling]_vars

\* The reader thread alone, auto mode off: fetches through the cache
InitReader ==
    /\ InitShared
    /\ EmptyDb
    /\ NoArgs
    /\ enabled = FALSE
    /\ use_render \in BOOLEAN
    /\ base_url \in BaseUrls
    /\ max_retries \in 1..MaxRetries
    /\ device = DeviceReadings
    /\ horizon = Horizon
    /\ get_answers = GetOutcomes
    /\ post_answers = PostOutcomes
    /\ db_flaky = TRUE
    /\ th = [t \in Threads |-> IF t = "nr" THEN Started(t) ELSE T0]

Fetch(t) == GetEntry(t) \/ GetTry(t) \/ GetSave(t)

NextReader ==
    \/ Tick
    \/ NrTop \/ NrAfterGet \/ NrCheck \/ NrSleep \/ NrWake
    \/ Fetch("nr")

SpecReader == InitReader /\ [][NextReader]_vars

\* Operator commands alone
InitManual ==
    /\ InitShared
    /\ FullDb(Reading(Wet, OPEN, "true", AbsentNum))
    /\ NoArgs
    /\ enabled = FALSE
    /\ use_render \in BOOLEAN
    /\ base_url = DEVICE_URL
    /\ max_retries \in 1..MaxRetries
    /\ device = ManualDevice
    /\ horizon = Horizon
    /\ get_answers = GetOutcomes
    /\ post_answers = PostOutcomes
    /\ db_flaky = TRUE
    /\ th = [t \in Threads |-> IF t = "http" THEN Started(t) ELSE T0]

Dispatch(t) ==
    \/ SendEntry(t) \/ SendAfterGet(t) \/ SendPost(t) \/ SendSleep(t)
    \/ SendAfterRefresh(t)

NextManual ==
    \/ Tick
    \/ HttpSendCommand \/ HttpReply
    \/ Dispatch("http")
    \/ Fetch("http")

SpecManual == InitManual /\ [][NextManual]_vars

\* python app.py with polling enabled: both loops run, the operator may switch
\* auto mode and the process may be told to stop
Init ==
    /\ InitShared
    /\ FullDb(Reading(Wet, OPEN, "true", AbsentNum))
    /\ NoArgs
    /\ enabled \in BOOLEAN
    /\ use_render = FALSE
    /\ base_url = DEVICE_URL
    /\ max_retries = 1
    /\ device = RainDevice
    /\ horizon = Horizon - TicksPerSec
    /\ get_answers = {"fail", "ok"}
    /\ post_answers = {"fail", "json_true"}
    /\ db_flaky = FALSE
    /\ th = [t \in Threads |-> IF t \in {"pw", "nr"} THEN Started(t) ELSE T0]

Next ==
    \/ Tick
    \/ SaveAutoSettings
    \/ StopThreads
    \/ PwTop \/ PwAfterGet \/ PwSleep \/ PwWake
    \/ NrTop \/ NrAfterGet \/ NrCheck \/ NrSleep \/ NrWake
    \/ \E t \in {"pw", "nr"} : Call(t)

Spec == Init /\ [][Next]_vars

\* The polling thread in auto mode and an operator sending commands by hand
InitOperator ==
    /\ InitShared
    /\ FullDb(Reading(Wet, OPEN, "true", AbsentNum))
    /\ NoArgs
    /\ enabled = TRUE
    /\ use_render = FALSE
    /\ base_url = DEVICE_URL
    /\ max_retries = 1
    /\ device = RainDevice
    /\ horizon = Horizon
    /\ get_answers = {"fail", "ok"}
    /\ post_answers = {"fail", "json_true"}
    /\ db_flaky = FALSE
    /\ th = [t \in Threads |-> IF t \in {"pw", "http"} THEN Started(t) ELSE T0]

NextOperator ==
    \/ Tick
    \/ PwTop \/ PwAfterGet \/ PwSleep \/ PwWake
    \/ Call("pw")
    \/ HttpSendCommand \/ HttpReply
    \/ Dispatch("http")
    \/ Fetch("http")

SpecOperator == InitOperator /\ [][NextOperator]_vars

\* python app.py in auto mode with a device that answers every request: the
\* two loops' checks overlap
InitOverlap ==
    /\ InitShared
    /\ FullDb(Reading(Wet, OPEN, "true", AbsentNum))
    /\ NoArgs
    /\ enabled = TRUE
    /\ use_render = FALSE
    /\ base_url = DEVICE_URL
    /\ max_retries = 1
    /\ device = {Reading(Wet, OPEN, "true", AbsentNum)}
    /\ horizon = Horizon
    /\ get_answers = {"ok"}
    /\ post_answers = {"json_true"}
    /\ db_flaky = FALSE
    /\ th = [t \in Threads |-> IF t \in {"pw", "nr"} THEN Started(t) ELSE T0]

NextOverlap ==
    \/ Tick
    \/ PwTop \/ PwAfterGet \/ PwSleep \/ PwWake
    \/ NrTop \/ NrAfterGet \/ NrCheck \/ NrSleep \/ NrWake
    \/ \E t \in {"pw", "nr"} : Call(t)

SpecOverlap == InitOverlap /\ [][NextOverlap]_vars

(***************************************************************************)
(* Training: the scheduler thread, the two training routes and the polling *)
(* thread that fills the table, with auto mode off.                        *)
(***************************************************************************)
\* table sensor_data holding n rows, the newest from r
DbWith(r, n) ==
    /\ db_latest = Some(RowOf(r))
    /\ db_count = n

Train(t) ==
    \/ TrainCount(t) \/ TrainLoad(t) \/ TrainFit(t) \/ TrainSave(t)
    \/ TrainSaveSetting(t) \/ TrainScore(t) \/ TrainUpdate(t) \/ TrainPersist(t)

InitTrain ==
    /\ InitShared
    /\ NoArgs
    /\ \E n \in {window_size + 8, window_size + 9} :
         DbWith(Reading(Sunny, CLOSED, "true", AbsentNum), n)
    /\ enabled = FALSE
    /\ use_render = FALSE
    /\ base_url = DEVICE_URL
    /\ max_retries = 1
    /\ device = {Reading(Sunny, CLOSED, "true", AbsentNum)}
    /\ horizon = Horizon
    /\ get_answers = {"fail", "ok"}
    /\ post_answers = {}
    /\ db_flaky = TRUE
    /\ th = [t \in Threads |-> IF t \in {"pw", "at"} THEN Started(t) ELSE T0]

NextTrain ==
    \/ Tick
    \/ StopThreads
    \/ PwTop \/ PwAfterGet \/ PwSleep \/ PwWake
    \/ Fetch("pw")
    \/ AtTop \/ AtCount \/ AtCheck \/ AtAfterTrain \/ AtSleep \/ AtWake
    \/ Train("at")

SpecTrain == InitTrain /\ [][NextTrain]_vars

\* The three ways into WeatherPredictor.train(): the scheduler thread and the
\* routes /train-model and /force-train-model, over a table that holds a few
\* rows fewer or more than training asks for
InitRoutes ==
    /\ InitShared
    /\ NoArgs
    /\ \E n \in (window_size + 8)..(window_size + 11) :
         DbWith(Reading(Sunny, CLOSED, "true", AbsentNum), n)
    /\ enabled = FALSE
    /\ use_render = FALSE
    /\ base_url = DEVICE_URL
    /\ max_retries = 1
    /\ device = {}
    /\ horizon = Horizon - TicksPerSec
    /\ get_answers = {}
    /\ post_answers = {}
    /\ db_flaky = TRUE
    /\ th = [t \in Threads |-> IF t \in {"at", "http"} THEN Started(t) ELSE T0]

NextRoutes ==
    \/ Tick
    \/ AtTop \/ AtCount \/ AtCheck \/ AtAfterTrain \/ AtSleep \/ AtWake
    \/ HttpTrainModel \/ HttpForceTrain \/ HttpAfterTrain
    \/ \E t \in {"at", "http"} : Train(t)

SpecRoutes == InitRoutes /\ [][NextRoutes]_vars

(***************************************************************************)
(* The decision of check_auto_conditions on its own, over a wide range of  *)
(* sensor values, thresholds and clock readings.                           *)
(***************************************************************************)
SensorVals == {0, 100, 300, 449, 450, 451, 500, 501, 549, 550, 551, 600}
ThresholdVals == {400, 500}

DecideArgs ==
    [ldr : SensorVals, rain : SensorVals,
     status : {OPEN, CLOSED, MOVING, "terbuka", Absent},
     lt : ThresholdVals, rt : ThresholdVals,
     current_time : {StartTime + 2 * TicksPerSec},
     last : {0, StartTime, StartTime + 1}, cooldown : {1, 2}]

InitDecide ==
    /\ InitShared
    /\ EmptyDb
    /\ arg \in DecideArgs
    /\ res = "unset"
    /\ enabled = TRUE
    /\ use_render = FALSE
    /\ base_url = DEVICE_URL
    /\ max_retries = 1
    /\ device = {}
    /\ horizon = 0
    /\ get_answers = {}
    /\ post_answers = {}
    /\ db_flaky = FALSE
    /\ th = [t \in Threads |-> T0]

\* lines 327-395 on one reading: the values taken from it, then the decision
ApplyDecide ==
    /\ res = "unset"
    /\ res' = Decide(ValuesOf([ldr |-> arg.ldr, rain |-> arg.rain,
                               status |-> arg.status]),
                     arg.lt, arg.rt, arg.current_time, arg.last, arg.cooldown)
    /\ UNCHANGED <<now, threads_running, setVars, cfgVars, last_auto_command_time,
                   cacheVars, dbVars, th, accepts, arg, envVars, mlVars>>

NextDecide == ApplyDecide

SpecDecide == InitDecide /\ [][NextDecide]_vars

(***************************************************************************)
(* Cycle after cycle of check_auto_conditions over sensor values that stay *)
(* the same: arg holds the values and thresholds, res the commands sent so *)
(* far.  The status read and the state of the cooldown vary from cycle to  *)
(* cycle.                                                                  *)
(***************************************************************************)
CycleArgs ==
    [ldr : SensorVals, rain : SensorVals, lt : ThresholdVals, rt : ThresholdVals]

InitCycle ==
    /\ InitShared
    /\ EmptyDb
    /\ arg \in CycleArgs
    /\ res = {}
    /\ enabled = TRUE
    /\ use_render = FALSE
    /\ base_url = DEVICE_URL
    /\ max_retries = 1
    /\ device = {}
    /\ horizon = 0
    /\ get_answers = {}
    /\ post_answers = {}
    /\ db_flaky = FALSE
    /\ th = [t \in Threads |-> T0]

\* lines 327-395 once more: the status as the device reports it this time and
\* the last-command time as it stands; a command decided is sent
ApplyCycle ==
    /\ \E status \in {OPEN, CLOSED, MOVING}, last \in {0, StartTime + 1} :
         LET command == Decide(ValuesOf([ldr |-> arg.ldr, rain |-> arg.rain,
                                         status |-> status]),
                               arg.lt, arg.rt, StartTime + 2 * TicksPerSec, last, 1)
         IN  res' = IF command = "none" THEN res ELSE res \cup {command}
    /\ UNCHANGED <<now, threads_running, setVars, cfgVars, last_auto_command_time,
                   cacheVars, dbVars, th, accepts, arg, envVars, mlVars>>

NextCycle == ApplyCycle

SpecCycle == InitCycle /\ [][NextCycle]_vars

(***************************************************************************)
(* save_sensor_data(ldr, rain, status, rotation), utils/database.py, on    *)
(* its own: arg holds the backend and what the database answers to each    *)
(* attempt, res the locals of the call, the waits it has made (in ms) and  *)
(* what it returned.                                                       *)
(***************************************************************************)
\* database.py line 20
save_max_retries == 5
\* database.py line 21: retry_delay = 0.1, in milliseconds
initial_retry_delay == 100

\* what one attempt may meet: the insert is committed, or an exception whose
\* text holds 'database is locked', or 'connection', or neither
SaveAnswers == {"ok", "locked", "connection", "other"}

SaveArgs == [pg : BOOLEAN, answers : [1..save_max_retries -> SaveAnswers]]

\* lines 49 and 58: the text of the exception that the backend's branch looks for
Retryable(pg, e) == IF pg THEN e = "connection" ELSE e = "locked"

\* the test of the last attempt taken over range(max_retries + 1)
MayRetry_AlsoOnLast(attempt, n) == attempt < n

\* lines 49 and 58: attempt < max_retries - 1
MayRetry(attempt, n) == attempt < n - 1

InitSave ==
    /\ InitShared
    /\ EmptyDb
    /\ arg \in SaveArgs
    /\ res = [pc |-> "try", attempt |-> 0, retry_delay |-> initial_retry_delay,
              waits |-> <<>>, tried |-> 0, ret |-> "none"]
    /\ enabled = FALSE
    /\ use_render = FALSE
    /\ base_url = DEVICE_URL
    /\ max_retries = 1
    /\ device = {}
    /\ horizon = 0
    /\ get_answers = {}
    /\ post_answers = {}
    /\ db_flaky = TRUE
    /\ th = [t \in Threads |-> T0]

\* lines 23-64: one pass of the loop up to its return or its time.sleep
SaveAttempt ==
    /\ res.pc = "try"
    /\ LET e == arg.answers[res.attempt + 1]
           r == [res EXCEPT !.tried = @ + 1] IN
       res' = IF e = "ok" THEN [r EXCEPT !.pc = "done", !.ret = "True"]
              ELSE IF Retryable(arg.pg, e) /\ MayRetry(res.attempt, save_max_retries)
                     THEN [r EXCEPT !.pc = "wait"]
                     ELSE [r EXCEPT !.pc = "done", !.ret = "False"]
    /\ UNCHANGED <<now, threads_running, setVars, cfgVars, last_auto_command_time,
                   cacheVars, dbVars, th, accepts, arg, envVars, mlVars>>

\* lines 50-52 and 59-61: the sleep, the doubling and the next pass; line 68
\* when there is no next pass
SaveWait ==
    /\ res.pc = "wait"
    /\ LET r == [res EXCEPT !.waits = Append(@, res.retry_delay),
                            !.retry_delay = @ * 2,
                            !.attempt = @ + 1] IN
       res' = IF r.attempt < save_max_retries
                THEN [r EXCEPT !.pc = "try"]
                ELSE [r EXCEPT !.pc = "done", !.ret = "False"]
    /\ UNCHANGED <<now, threads_running, setVars, cfgVars, last_auto_command_time,
                   cacheVars, dbVars, th, accepts, arg, envVars, mlVars>>

NextSave == SaveAttempt \/ SaveWait

SpecSave == InitSave /\ [][NextSave]_vars

(***************************************************************************)
(* One JSON object of the device on its way through a successful fetch:    *)
(* arg is the object, any of its fields absent; res holds the row that is  *)
(* inserted, the values check_auto_conditions reads from the reading and   *)
(* the command it decides on with no cooldown running.                     *)
(***************************************************************************)
FieldArgs ==
    [ldr : {AbsentNum, 0, 300, 600}, rain : {AbsentNum, 0, 600},
     status : {Absent, OPEN, CLOSED, MOVING, "terbuka"},
     rotation : {AbsentNum, 0, 90}]

\* nodemcu_manager.py lines 118-123: the four arguments of save_sensor_data
SavedRow(d) ==
    [ldr |-> RowOf(d).ldr, rain |-> RowOf(d).rain, status |-> RowOf(d).status,
     rotation |-> DictGetNum(d.rotation, 0)]

InitFields ==
    /\ InitShared
    /\ EmptyDb
    /\ arg \in FieldArgs
    /\ res = [done |-> FALSE]
    /\ enabled = TRUE
    /\ use_render = FALSE
    /\ base_url = DEVICE_URL
    /\ max_retries = 1
    /\ device = {}
    /\ horizon = 0
    /\ get_answers = {}
    /\ post_answers = {}
    /\ db_flaky = FALSE
    /\ th = [t \in Threads |-> T0]

\* lines 118-123, then 329-331 and 348-395 on the reading returned
ApplyFields ==
    /\ ~res.done
    /\ res' = [done |-> TRUE,
               row |-> SavedRow(arg),
               vals |-> ValuesOf(arg),
               command |-> Decide(ValuesOf(arg), lightThreshold, rainThreshold,
                                  StartTime + 2 * TicksPerSec, 0, 1)]
    /\ UNCHANGED <<now, threads_running, setVars, cfgVars, last_auto_command_time,
                   cacheVars, dbVars, th, accepts, arg, envVars, mlVars>>

NextFields == ApplyFields

SpecFields == InitFields /\ [][NextFields]_vars

(***************************************************************************)
(* Properties.                                                             *)
(***************************************************************************)
\* the status of a reading as the code compares it
StatusOf(d) == Upper(DictGetStr(d.status, ""))

\* thread t takes a step
Steps(t) == th'[t] # th[t]

\* C1: the last-command time changes only at the end of a dispatch in which a
\* control POST was issued and the device answered it HTTP 200 with success
\* true; every other dispatch outcome, one without any POST included, leaves it
\* as it was.
C1_StampOnlyAfterAcceptedPost ==
    [][last_auto_command_time' # last_auto_command_time =>
         \E t \in Threads : /\ th[t].pc = "cac_after_send"
                            /\ th[t].npost > 0
                            /\ th[t].acc]_vars

\* C2: in every interleaving of the two loops, two auto commands the device
\* accepted are at least command_cooldown seconds apart.
C2_AcceptedCommandsCooldownApart ==
    Len(accepts) = 2 => accepts[2] - accepts[1] >= command_cooldown * TicksPerSec

\* C3: the auto-control path is never about to POST a command while the status
\* it last obtained from the device is neither OPEN nor CLOSED.
C3_NoAutoPostWhileMoving ==
    \A t \in Threads :
        InAuto(th[t]) /\ th[t].pc = "send_post" /\ ~IsNone(th[t].cur)
            => Settled(StatusOf(Val(th[t].cur)))

\* C4: while enabled is false, check_auto_conditions returns at once, without a
\* fetch, a command or a change of the last-command time, and the loops that
\* read the flag go to sleep without calling it.
C4_DisabledTakesNoAction ==
    [][~enabled =>
         \A t \in Threads :
            /\ th[t].pc = "cac_entry" /\ Steps(t) =>
                  /\ th'[t].pc = th[t].cto
                  /\ th'[t].act = "none"
                  /\ th'[t].npost = 0
                  /\ last_auto_command_time' = last_auto_command_time
                  /\ accepts' = accepts
            /\ th[t].pc \in {"pw_after_get", "nr_check"} /\ Steps(t) =>
                  /\ th'[t].pc \in {"pw_sleep", "nr_sleep"}
                  /\ ~InAuto(th'[t])]_vars

\* C4 happens: a loop's check has returned because auto mode was off
C4_Witness ==
    \E t \in {"pw", "nr"} :
        th[t].cout = "disabled" /\ ~enabled /\ th[t].pc \in {"pw_sleep", "nr_sleep"}

\* C5: with a settled status and no cooldown active, the decision is close
\* exactly when the line is OPEN and (rain > rain_threshold or light <
\* light_threshold - 50), open exactly when it is CLOSED and light >
\* light_threshold + 50 and rain < rain_threshold - 50, and none otherwise; with
\* thresholds 500/500, {300,100,CLOSED} gives none, {600,100,CLOSED} gives open
\* and {300,600,OPEN} gives close.
C5_DecisionMatchesConditions ==
    res # "unset" =>
        LET status == StatusOf(arg)
            cooled == arg.current_time - arg.last >= arg.cooldown * TicksPerSec
            closes == status = OPEN /\ (arg.rain > arg.rt \/ arg.ldr < arg.lt - 50)
            opens == status = CLOSED /\ arg.ldr > arg.lt + 50 /\ arg.rain < arg.rt - 50
            is(l, r, st) == arg.ldr = l /\ arg.rain = r /\ status = st
        IN  status \in {OPEN, CLOSED} /\ cooled =>
              /\ res = "close" <=> closes
              /\ res = "open" <=> opens
              /\ res = "none" <=> ~closes /\ ~opens
              /\ arg.lt = 500 /\ arg.rt = 500 =>
                    /\ is(300, 100, CLOSED) => res = "none"
                    /\ is(600, 100, CLOSED) => res = "open"
                    /\ is(300, 600, OPEN) => res = "close"

\* C5 happens: the concrete OPEN case has been decided
C5_Witness ==
    /\ res = "open"
    /\ arg.ldr = 600 /\ arg.rain = 100 /\ arg.status = CLOSED
    /\ arg.lt = 500 /\ arg.rt = 500 /\ arg.last = 0

\* the values check_auto_conditions took from the reading it got
Got(t) == ValuesOf(Val(th[t].gval))

\* C6: when the check has a reading that calls for open or close, it returns
\* without sending while now - last command time < cooldown, and goes on to
\* send that command when now - last command time >= cooldown.
C6_CooldownSuppression ==
    [][\A t \in Threads :
         /\ th[t].pc = "cac_after_get"
         /\ Steps(t)
         /\ ~IsNone(th[t].gval)
         /\ Got(t).status \in {OPEN, CLOSED}
         /\ AutoDecision(Got(t).ldr, Got(t).rain, Got(t).status,
                         lightThreshold, rainThreshold) # "none"
         => IF now - last_auto_command_time < command_cooldown * TicksPerSec
              THEN /\ th'[t].pc = th[t].cto
                   /\ th'[t].act = "none"
                   /\ accepts' = accepts
                   /\ last_auto_command_time' = last_auto_command_time
              ELSE /\ th'[t].pc = "send_entry"
                   /\ th'[t].act = AutoDecision(Got(t).ldr, Got(t).rain, Got(t).status,
                                                lightThreshold, rainThreshold)]_vars

\* C6 happens: after an accepted command, a check on a wet, open line has been
\* put off by the cooldown
C6_Witness ==
    /\ th["pw"].cout = "cooldown"
    /\ th["pw"].pc = "pw_sleep"
    /\ last_auto_command_time > 0
    /\ now - last_auto_command_time < command_cooldown * TicksPerSec
    /\ ~IsNone(latest_polled_data)
    /\ Val(latest_polled_data).status = OPEN
    /\ Val(latest_polled_data).rain > rainThreshold
    /\ Val(latest_polled_data).at = now

\* C7: when a dispatch that issued POSTs ends without the device having
\* accepted one (every attempt failed or was answered non-200, or the answer
\* did not say success), the last-command time stays as it was, so the next
\* check is no more under cooldown than this one was.
C7_FailedSendKeepsStamp ==
    [][\A t \in Threads :
         th[t].pc = "cac_after_send" /\ Steps(t) /\ th[t].npost > 0 /\ ~th[t].acc
         => /\ last_auto_command_time' = last_auto_command_time
            /\ th'[t].pc = th[t].cto]_vars

\* C7 happens: a close command went through all its attempts in vain and no
\* command time has been recorded
C7_Witness ==
    /\ th["pw"].cout = "failed"
    /\ th["pw"].pc = "pw_sleep"
    /\ last_auto_command_time = 0
    /\ accepts = <<>>

\* the reading fetched by the dispatcher says the line is where the command
\* would put it
Matches(s) ==
    /\ ~IsNone(s.cur)
    /\ \/ s.act = "open" /\ StatusOf(Val(s.cur)) = OPEN
       \/ s.act = "close" /\ StatusOf(Val(s.cur)) = CLOSED

\* C8 as stated: asked for the position the fresh reading already shows, the
\* dispatcher returns success and issues no POST.
C8_NoopReturnsSuccess ==
    th["http"].pc = "http_reply" /\ Matches(th["http"])
        => th["http"].sres = "true" /\ th["http"].npost = 0

\* C8: asked for the position the fresh reading already shows, the dispatcher
\* issues no POST; it returns success when that reading says connected (or
\* render mode is on) and failure otherwise.
C8_NoopIssuesNoPost ==
    th["http"].pc = "http_reply" /\ Matches(th["http"])
        => /\ th["http"].npost = 0
           /\ th["http"].sres \in {"true", "false"}
           /\ th["http"].sres = "true" <=>
                 \/ Val(th["http"].cur).connected = "true"
                 \/ use_render

\* C8 happens: open was asked of a connected line that reports terbuka
C8_Witness ==
    /\ th["http"].pc = "http_reply"
    /\ th["http"].act = "open"
    /\ ~IsNone(th["http"].cur)
    /\ Val(th["http"].cur).status = "terbuka"
    /\ th["http"].sres = "true"
    /\ th["http"].npost = 0

\* C9: one call of get_nodemcu_data issues at most max_retries GETs; it gives
\* up (returns no reading) exactly when max_retries attempts in a row have
\* failed, and it issues no GET once an attempt has been answered HTTP 200.
C9_FetchRetryBound ==
    \A t \in Threads :
        /\ th[t].nget <= max_retries
        /\ th[t].gwhy = "exhausted" => th[t].nget = max_retries /\ IsNone(th[t].gval)
        /\ th[t].pc = "get_try" =>
              /\ ~th[t].g200
              /\ th[t].nget = th[t].gretry
              /\ th[t].nget < max_retries
        /\ th[t].g200 => th[t].pc = "get_save"

\* C9 happens: a fetch has given up after the largest configured number of
\* attempts
C9_Witness ==
    /\ th["nr"].gwhy = "exhausted"
    /\ th["nr"].pc = "nr_after_get"
    /\ th["nr"].nget = MaxRetries
    /\ max_retries = MaxRetries

\* 2 x POLLING_INTERVAL in ticks
Window == 2 * POLLING_INTERVAL * TicksPerSec

\* C10 as stated: without force_refresh, the cached reading is returned with no
\* GET when one exists that arrived less than 2 x POLLING_INTERVAL ago;
\* otherwise the call goes to the network.
C10_CacheServedByAge ==
    [][\A t \in Threads :
         th[t].pc = "get_entry" /\ Steps(t) /\ ~th[t].force
         => IF ~IsNone(latest_polled_data)
                 /\ now - Val(latest_polled_data).at < Window
              THEN /\ th'[t].pc = th[t].gto
                   /\ th'[t].gval = latest_polled_data
                   /\ th'[t].nget = 0
              ELSE th'[t].pc = "get_try"]_vars

\* C10: without force_refresh, the cached reading is returned with no GET when
\* one exists whose timestamp field parses and lies less than
\* 2 x POLLING_INTERVAL before now; otherwise the call goes to the network.
C10_CacheServedByTimestamp ==
    [][\A t \in Threads :
         th[t].pc = "get_entry" /\ Steps(t) /\ ~th[t].force
         => IF /\ ~IsNone(latest_polled_data)
               /\ Val(latest_polled_data).ts # BadTs
               /\ now - Val(latest_polled_data).ts * TicksPerSec < Window
              THEN /\ th'[t].pc = th[t].gto
                   /\ th'[t].gval = latest_polled_data
                   /\ th'[t].nget = 0
              ELSE th'[t].pc = "get_try"]_vars

\* C10 happens: the reader got the cached reading, which arrived earlier
C10_Witness ==
    /\ th["nr"].pc = "nr_after_get"
    /\ th["nr"].gwhy = "cache"
    /\ th["nr"].nget = 0
    /\ th["nr"].gval = latest_polled_data
    /\ Val(latest_polled_data).at < now

\* C11 as stated: a fetch that fails (all its attempts) returns the reading
\* cached before, and no reading only when none is cached.
C11_FailedFetchReturnsCached ==
    [][\A t \in Threads :
         th[t].pc = "get_try" /\ Steps(t) /\ th'[t].pc = th[t].gto
         => th'[t].gval = latest_polled_data]_vars

\* C11: a fetch that fails (every attempt failed, or the answer could not be
\* decoded) returns no reading whether or not one is cached, and leaves the
\* cached reading as it was.
C11_FailedFetchReturnsNone ==
    [][\A t \in Threads :
         th[t].pc = "get_try" /\ Steps(t) /\ th'[t].pc = th[t].gto
         => /\ IsNone(th'[t].gval)
            /\ th'[t].gwhy \in {"exhausted", "exception"}
            /\ latest_polled_data' = latest_polled_data]_vars

\* C11 happens: the reader's fetch gave up while an older reading is cached
C11_Witness ==
    /\ th["nr"].pc = "nr_after_get"
    /\ th["nr"].gwhy = "exhausted"
    /\ IsNone(th["nr"].gval)
    /\ ~IsNone(latest_polled_data)
    /\ Val(latest_polled_data).at < now

\* C12 as stated: with no usable device address configured (base_url empty or
\* the localhost placeholder), a fetch issues no HTTP request.
C12_NoAddressNoRequest ==
    \A t \in Threads : base_url \in {"", "http://localhost/"} => th[t].nget = 0

\* C12: with no usable device address configured (base_url empty or the
\* localhost placeholder), as with render mode on, a fetch sends its GETs to
\* /api/data of the cloud endpoint; otherwise to /api/data under base_url.
C12_NoAddressUsesCloudEndpoint ==
    \A t \in Threads :
        /\ th[t].pc \in {"get_try", "get_save"} => ~IsNone(th[t].url)
        /\ ~IsNone(th[t].url) =>
            /\ th[t].url[2] = <<"/api/data">>
            /\ th[t].url[1] = IF use_render \/ base_url \in {"", "http://localhost/"}
                                THEN RENDER_URL ELSE base_url

\* C12 happens: with an empty base_url and render mode off, a GET has been
\* sent to the cloud endpoint and answered
C12_Witness ==
    /\ base_url = ""
    /\ ~use_render
    /\ th["nr"].pc = "get_save"
    /\ th["nr"].nget = 1
    /\ ~IsNone(th["nr"].url)
    /\ th["nr"].url[1] = RENDER_URL

\* C13: in a cycle of the training scheduler, train is called exactly when the
\* count read in that cycle is at least window_size + 10: a count of
\* window_size + 9 goes to sleep without training, window_size + 10 trains;
\* the count is that of the table, or 0 when the query failed.
C13_TrainIffEnoughRows ==
    [][/\ th["at"].pc = "at_count" /\ Steps("at") =>
            /\ th'["at"].pc = "at_check"
            /\ th'["at"].count \in {db_count, 0}
       /\ th["at"].pc = "at_check" /\ Steps("at") =>
            /\ th'["at"].pc \in {"train_count", "at_sleep"}
            /\ th'["at"].pc = "train_count" <=> th["at"].count >= window_size + 10
            /\ th["at"].count = window_size + 9 => th'["at"].pc = "at_sleep"
            /\ th["at"].count = window_size + 10 => th'["at"].pc = "train_count"
       /\ th'["at"].pc = "train_count" /\ Steps("at") => th["at"].pc = "at_check"]_vars

\* C13 happens: the scheduler read exactly window_size + 10 rows and has called
\* train
C13_Witness ==
    /\ th["at"].pc = "train_count"
    /\ th["at"].count = window_size + 10
    /\ db_count = window_size + 10

\* C14: when check_auto_conditions decides on a reading it got from the device
\* (fetched by itself or served from the cache), save_sensor_data has already
\* been called for that reading.
C14_InsertAttemptedBeforeDecision ==
    [][\A t \in Threads :
         th[t].pc = "cac_after_get" /\ Steps(t) /\ th[t].gwhy = "cache"
         => gsrc[t] = "none"]_vars

\* C15: a dispatch that issued POSTs ends accepted exactly when the device
\* answered the last one HTTP 200 with a body that is not JSON, or is JSON and
\* does not say success false; a dispatch whose POSTs all failed or were
\* answered non-200 ends not accepted.
C15_AcceptedIffOkWithoutFailure ==
    \A t \in Threads :
        th[t].pc = "cac_after_send" /\ th[t].npost > 0
            => (Succeeded(th[t].sres)
                  <=> th[t].pout \in {"json_true", "json_nokey", "nonjson"})

\* C16: while threads_running is set the polling loop does not end: whatever
\* the fetch, the auto check or the command did, the iteration goes on to its
\* sleep, which lasts no longer than the polling interval, and the loop then
\* starts the next iteration with a forced fetch.
C16_PollingLoopGoesOn ==
    [][/\ threads_running' => th'["pw"].pc # "done"
       /\ th["pw"].pc = "pw_top" /\ Steps("pw") /\ threads_running =>
            th'["pw"].pc = "get_entry" /\ th'["pw"].force
       /\ th["pw"].pc = "pw_after_get" /\ Steps("pw") =>
            th'["pw"].pc = IF enabled THEN "cac_entry" ELSE "pw_sleep"
       /\ InAuto(th["pw"]) /\ ~InAuto(th'["pw"]) => th'["pw"].pc = "pw_sleep"
       /\ th["pw"].pc = "pw_sleep" /\ Steps("pw") =>
            /\ th'["pw"].pc = "pw_wait"
            /\ th'["pw"].wake <= now + POLLING_INTERVAL * TicksPerSec
       /\ th["pw"].pc = "pw_wait" /\ Steps("pw") => th'["pw"].pc = "pw_top"]_vars

\* C16 happens: the iteration's fetch failed, the auto check's fetch failed
\* too and nothing is stored, and the loop has come to its sleep
C16_Witness ==
    /\ th["pw"].pc = "pw_sleep"
    /\ th["pw"].cout = "nodata"
    /\ IsNone(latest_polled_data)
    /\ IsNone(db_latest)
    /\ threads_running

\* the thread is inside WeatherPredictor.train
InTrain(s) == s.tto # "none"

\* C17: while threads_running is set the training scheduler does not end: a
\* training that raised comes back to the loop like one that succeeded, the
\* cycle goes on to its sleep of training_interval, and the next cycle reads
\* the count and trains again when it is large enough.
C17_SchedulerGoesOn ==
    [][/\ threads_running' => th'["at"].pc # "done"
       /\ th["at"].pc = "at_top" /\ Steps("at") /\ threads_running =>
            th'["at"].pc = "at_count"
       /\ InTrain(th["at"]) /\ ~InTrain(th'["at"]) =>
            th'["at"].pc = "at_after_train" /\ th'["at"].tres \in {"ok", "error"}
       /\ th["at"].pc = "at_after_train" /\ Steps("at") => th'["at"].pc = "at_sleep"
       /\ th["at"].pc = "at_sleep" /\ Steps("at") =>
            /\ th'["at"].pc = "at_wait"
            /\ th'["at"].wake = now + training_interval * TicksPerSec
       /\ th["at"].pc = "at_wait" /\ Steps("at") => th'["at"].pc = "at_top"
       /\ th["at"].pc = "at_check" /\ Steps("at") /\ th["at"].tres = "error"
            /\ th["at"].count >= window_size + 10 => InTrain(th'["at"])]_vars

\* C17 happens: the last training raised, and in a later cycle the scheduler
\* has read a count that is large enough
C17_Witness ==
    /\ th["at"].pc = "at_check"
    /\ th["at"].tres = "error"
    /\ th["at"].count >= window_size + 10
    /\ threads_running

\* the background loops and the place where each reads threads_running
Loops == {"pw", "nr", "at"}
LoopTop(t) == CASE t = "pw" -> "pw_top" [] t = "nr" -> "nr_top" [] OTHER -> "at_top"

C19_StatusSetAndPersisted ==
    \A t \in Threads :
        th[t].pc \in {"at_after_train", "http_after_train"} /\ th[t].tres = "ok"
            => /\ MODEL_INFO.trained
               /\ ~IsNone(MODEL_INFO.lastTraining)
               /\ ~IsNone(MODEL_INFO.accuracy)
               /\ settings.model_trained = Some("True")
               /\ settings.model_last_training = MODEL_INFO.lastTraining
               /\ settings.model_accuracy = Some(Str(Val(MODEL_INFO.accuracy)))

\* C20 as stated: MODEL_INFO changes only in the step that completes a
\* training (lines 203-205), and a step in which a training fails leaves it as
\* it was.
C20_StatusChangesOnlyOnCompletion ==
    [][/\ MODEL_INFO' # MODEL_INFO =>
            \E t \in Threads : th[t].pc = "train_update" /\ Steps(t)
       /\ \A t \in Threads :
            InTrain(th[t]) /\ th'[t].tres = "error" => MODEL_INFO' = MODEL_INFO]_vars

\* C20: MODEL_INFO changes only inside a training, at two places: trained
\* becomes true, and nothing else changes, when save_model has written the
\* model files; trained, lastTraining (the time then) and accuracy (the score)
\* are all set when the training completes.  A training fails only up to the
\* writing of the model files, in a step that leaves MODEL_INFO as it was.
C20_StatusChangesOnSaveAndCompletion ==
    [][/\ MODEL_INFO' # MODEL_INFO =>
            \E t \in Threads : /\ th[t].pc \in {"train_save", "train_update"}
                               /\ Steps(t)
                               /\ InTrain(th[t])
       /\ \A t \in Threads :
            /\ th[t].pc = "train_save" /\ Steps(t) /\ th'[t].tres # "error" =>
                  /\ MODEL_INFO'.trained
                  /\ MODEL_INFO'.lastTraining = MODEL_INFO.lastTraining
                  /\ MODEL_INFO'.accuracy = MODEL_INFO.accuracy
            /\ th[t].pc = "train_update" /\ Steps(t) =>
                  MODEL_INFO' = [trained |-> TRUE,
                                 lastTraining |-> <<now \div TicksPerSec>>,
                                 accuracy |-> <<th[t].accuracy>>]
            /\ InTrain(th[t]) /\ th'[t].tres = "error" =>
                  /\ th[t].pc \in {"train_count", "train_load", "train_fit",
                                   "train_save"}
                  /\ MODEL_INFO' = MODEL_INFO]_vars

\* C20 happens: in the first training the model files have been saved and
\* trained is set, while the training has not completed: no time of last
\* training and no accuracy yet
C20_Witness ==
    /\ th["at"].pc = "train_score"
    /\ MODEL_INFO.trained
    /\ IsNone(MODEL_INFO.lastTraining)
    /\ IsNone(MODEL_INFO.accuracy)

\* C21: every command the route accepts (open, close, stop) is dispatched to the
\* device, and the reply says success only when the command was delivered: the
\* device answered a control POST with HTTP 200, or the dispatch itself
\* reported success
C21_SuccessOnlyWhenDelivered ==
    th["http"].reply = "success" =>
        \/ th["http"].pout \in {"json_true", "json_false", "json_nokey", "nonjson"}
        \/ th["http"].sres = "true"

\* the thread is inside send_command_to_nodemcu
InSend(s) == s.sto # "none"

\* C22: no step of a dispatch, and no step of an operator command whatever its
\* outcome, changes the last-command time; it changes only at the step of
\* check_auto_conditions that follows the return of its dispatch
C22_SendLeavesStampAlone ==
    [][/\ \A t \in Threads :
             InSend(th[t]) /\ Steps(t) =>
                 last_auto_command_time' = last_auto_command_time
       /\ Steps("http") => last_auto_command_time' = last_auto_command_time
       /\ last_auto_command_time' # last_auto_command_time =>
             \E t \in Threads : /\ th[t].pc = "cac_after_send"
                                /\ ~InSend(th[t])
                                /\ Steps(t)]_vars

\* C22 happens: the operator's command was delivered after an auto command had
\* set the last-command time
C22_Witness ==
    /\ th["http"].reply = "success"
    /\ th["http"].act \in {"open", "close"}
    /\ th["http"].acc
    /\ last_auto_command_time > 0

\* the answers to a POST that carry HTTP 200
Post200 == {"json_true", "json_false", "json_nokey", "nonjson"}

\* C23: one dispatch issues at most max_retries control POSTs; when its last
\* attempt got no answer or a non-200 one (so every attempt did), it has issued
\* exactly max_retries and returns a result that is no success; once an attempt
\* was answered with HTTP 200 the dispatch is never again about to POST.
C23_SendRetryBound ==
    \A t \in Threads :
        /\ th[t].npost <= max_retries
        /\ th[t].pout \in Post200 => th[t].pc # "send_post"
        /\ th[t].pc = "http_reply" /\ th[t].pout \in {"fail", "non200"} =>
               /\ th[t].npost = max_retries
               /\ th[t].sres = "false"
        /\ th[t].pc = "http_reply" /\ th[t].pout \in Post200 =>
               th[t].npost >= 1

\* C23 happens: a dispatch has returned after max_retries failed attempts, more
\* than one
C23_Witness ==
    /\ th["http"].pc = "http_reply"
    /\ th["http"].pout \in {"fail", "non200"}
    /\ th["http"].npost = MaxRetries
    /\ max_retries = MaxRetries
    /\ MaxRetries > 1

\* C24: for fixed sensor values and thresholds the CLOSE condition (rain >
\* rain_threshold or light < light_threshold - 50) and the OPEN condition (light
\* > light_threshold + 50 and rain < rain_threshold - 50) are not both true, and
\* over any number of cycles, whatever status is read and whether the cooldown
\* has expired, auto-control does not send both an open and a close.
C24_NoOscillation ==
    /\ ~(/\ arg.rain > arg.rt \/ arg.ldr < arg.lt - 50
         /\ arg.ldr > arg.lt + 50 /\ arg.rain < arg.rt - 50)
    /\ ~({"open", "close"} \subseteq res)

\* C24 happens: with the light just past the upper edge of the band, cycles have
\* run and an open was sent
C24_Witness ==
    /\ res = {"open"}
    /\ arg.ldr = 551 /\ arg.lt = 500

\* C25: the reading a dispatch tests for connection and for "already there" is
\* never one served from the cache: it was fetched from the device by a request
\* of this dispatch; when that fetch failed the dispatch has no reading and goes
\* on to POST, whatever the cache holds.
C25_NoopGatedByFetchedReading ==
    [][\A t \in Threads :
         th[t].pc = "send_after_get" /\ Steps(t) =>
             /\ th[t].gwhy # "cache"
             /\ th[t].nget >= 1
             /\ ~IsNone(th[t].gval) => th[t].gwhy = "ok"
             /\ IsNone(th[t].gval) => th'[t].pc = "send_post"
             /\ th'[t].pc = th[t].sto => ~IsNone(th[t].gval)]_vars

\* C25 happens: the forced fetch of an open command failed while the cache held
\* a fresh reading of an open line, and the dispatch is about to POST
C25_Witness ==
    /\ th["http"].pc = "send_post"
    /\ th["http"].act = "open"
    /\ th["http"].npost = 0
    /\ IsNone(th["http"].cur)
    /\ CacheFresh(latest_polled_data, now, POLLING_INTERVAL)
    /\ StatusOf(Val(latest_polled_data)) = OPEN

\* C26: an iteration of the reader loop is never served from the cache, and the
\* reading it fetched is in the store exactly once: after the first iteration,
\* which started on an empty table, the table holds at most one row.
C26_IterationFetchesAndAppendsOnce ==
    /\ th["nr"].pc = "nr_after_get" => th["nr"].gwhy # "cache"
    /\ th["nr"].pc = "nr_check" /\ now = StartTime => db_count <= 1

\* a cache that is empty or holds one whole reading as one fetch got it: every
\* field of a reading the device sends, with a timestamp
WholeReading(c) ==
    \/ IsNone(c)
    \/ /\ Val(c).ts # AbsentNum
       /\ \E r \in device : Val(c) = WithTimestamp(r, Val(c).at)

\* C27: the cache is empty or holds one whole reading with its timestamp; it
\* changes only in the step in which a fetch got its 200 answer, and then to
\* exactly the reading that fetch returns; a fetch that ends without a reading
\* leaves the cache as it was, however the calls of the threads interleave.
C27_CacheReplacedOnlyBySuccess ==
    [][/\ WholeReading(latest_polled_data')
       /\ latest_polled_data' # latest_polled_data =>
             \E t \in Threads : /\ th[t].pc = "get_try"
                                /\ Steps(t)
                                /\ th'[t].pc = "get_save"
                                /\ latest_polled_data' = th'[t].gval
       /\ \A t \in Threads :
             th[t].pc = "get_try" /\ Steps(t) /\ th'[t].pc # "get_save" =>
                 latest_polled_data' = latest_polled_data]_vars

\* C27 happens: a fetch of one thread has failed while another thread's fetch
\* had just replaced the cached reading, which is still there
C27_Witness ==
    \E t, u \in Threads :
        /\ t # u
        /\ th[t].gwhy = "exhausted"
        /\ th[u].pc = "get_save"
        /\ latest_polled_data = th[u].gval

\* C28: when the insert of a fetched reading fails (save_sensor_data returns
\* False or raises), the fetch returns that reading all the same and the cache
\* keeps it; an iteration of the polling loop none of whose inserts got through
\* has still run the auto-control check and sleeps until polling_interval after
\* its start, as any other.
C28_FailedInsertTolerated ==
    [][/\ \A t \in Threads :
             /\ th[t].pc = "get_save"
             /\ Steps(t)
             /\ db_count' = db_count
             /\ db_count < MaxRows
             => /\ th'[t].pc = th[t].gto
                /\ ~IsNone(th'[t].gval)
                /\ th'[t].gval = th[t].gval
                /\ latest_polled_data' = th[t].gval
       /\ /\ th["pw"].pc = "pw_sleep"
          /\ Steps("pw")
          /\ db_count = 0
          /\ ~IsNone(latest_polled_data)
          => /\ th["pw"].cout # "none"
             /\ th'["pw"].pc = "pw_wait"
             /\ th'["pw"].wake = Max(now + MinSleep,
                                     th["pw"].start + POLLING_INTERVAL * TicksPerSec)]_vars

\* C28 happens: the polling loop has fetched a reading, no insert got through,
\* the check has run and decided, and the loop is about to sleep
C28_Witness ==
    /\ th["pw"].pc = "pw_sleep"
    /\ db_count = 0
    /\ ~IsNone(latest_polled_data)
    /\ th["pw"].cout \in {"accepted", "failed", "noaction"}

IntervalOf(t) == IF t = "pw" THEN POLLING_INTERVAL ELSE polling_interval

\* C30: at the end of an iteration a polling loop sleeps for max(0,
\* polling_interval - elapsed), elapsed being the time since the iteration
\* began, so that it wakes polling_interval after that beginning when the
\* iteration took no longer.
C30_SleepsForTheRemainder ==
    [][\A t \in {"pw", "nr"} :
         th[t].pc \in {"pw_sleep", "nr_sleep"} /\ Steps(t) =>
             LET elapsed == now - th[t].start IN
             /\ th'[t].wake - now = Max(0, IntervalOf(t) * TicksPerSec - elapsed)
             /\ elapsed <= IntervalOf(t) * TicksPerSec =>
                   th'[t].wake = th[t].start + IntervalOf(t) * TicksPerSec]_vars

\* C31 as stated: absent ldr, rain and rotation are 0 and an absent status is
\* "UNKNOWN", in the row that is inserted and in the values the decision uses,
\* and a reading without a status leads to no command
C31_AbsentFieldsGetDefaults ==
    res.done =>
        /\ arg.ldr = AbsentNum => res.row.ldr = 0 /\ res.vals.ldr = 0
        /\ arg.rain = AbsentNum => res.row.rain = 0 /\ res.vals.rain = 0
        /\ arg.rotation = AbsentNum => res.row.rotation = 0
        /\ arg.status = Absent =>
              /\ res.row.status = "UNKNOWN"
              /\ res.vals.status = "UNKNOWN"
              /\ res.command = "none"

\* C31: absent ldr, rain and rotation are 0 in the row that is inserted and an
\* absent status is "UNKNOWN" there; the decision reads absent ldr and rain as 0
\* and an absent status as the empty string; a reading without a status leads
\* to no command; fields the object holds are taken as they are.
C31_AbsentFieldsDefaultPerUse ==
    res.done =>
        /\ res.row.ldr = (IF arg.ldr = AbsentNum THEN 0 ELSE arg.ldr)
        /\ res.vals.ldr = res.row.ldr
        /\ res.row.rain = (IF arg.rain = AbsentNum THEN 0 ELSE arg.rain)
        /\ res.vals.rain = res.row.rain
        /\ res.row.rotation = (IF arg.rotation = AbsentNum THEN 0 ELSE arg.rotation)
        /\ res.row.status = (IF arg.status = Absent THEN "UNKNOWN" ELSE arg.status)
        /\ arg.status = Absent => res.vals.status = "" /\ res.command = "none"

\* C31 happens: an object that held none of the fields has gone through
C31_Witness ==
    /\ res.done
    /\ arg.ldr = AbsentNum /\ arg.rain = AbsentNum
    /\ arg.status = Absent /\ arg.rotation = AbsentNum

\* C32: the last-command time never decreases, also when check_auto_conditions
\* runs on two threads at once
C32_StampNeverDecreases ==
    [][last_auto_command_time' >= last_auto_command_time]_vars

\* the reading says connected = true
SaysConnected(d) == d.connected = "true"

\* C33: when the forced fetch of a dispatch brought a reading that does not say
\* connected = true (false, or no such field) and render mode is off, the
\* dispatch returns a result that is no success without any POST, also when the
\* line already is where the command would put it; a dispatch is about to POST
\* only with a reading that says connected = true, or in render mode, or
\* without a reading.
C33_NotConnectedNoPost ==
    [][\A t \in Threads :
         /\ /\ th[t].pc = "send_after_get"
            /\ Steps(t)
            /\ ~IsNone(th[t].gval)
            /\ ~SaysConnected(Val(th[t].gval))
            /\ ~use_render
            => /\ th'[t].pc = th[t].sto
               /\ th'[t].sres = "false"
               /\ th'[t].npost = 0
         /\ th'[t].pc = "send_post" =>
               \/ IsNone(th'[t].cur)
               \/ SaysConnected(Val(th'[t].cur))
               \/ use_render]_vars

\* C33 happens: an open command for a line that is open already was refused
\* because the reading said connected = false
C33_Witness ==
    /\ th["http"].pc = "http_reply"
    /\ th["http"].act = "open"
    /\ ~IsNone(th["http"].cur)
    /\ StatusOf(Val(th["http"].cur)) = OPEN
    /\ Val(th["http"].cur).connected = "false"
    /\ ~use_render
    /\ th["http"].sres = "false"
    /\ th["http"].npost = 0

\* C34: a dispatch whose forced fetch brought no reading goes straight on to the
\* POST loop, from its first pass; when it has returned it has issued at least
\* one POST and at most max_retries, all max_retries of them when the last got
\* no answer or a non-200 one, and just those up to the first 200.
C34_FailedFetchStillPosts ==
    [][\A t \in Threads :
         /\ th[t].pc = "send_after_get" /\ Steps(t) /\ IsNone(th[t].gval) =>
               /\ th'[t].pc = "send_post"
               /\ th'[t].sretry = 0
               /\ th'[t].npost = 0
               /\ IsNone(th'[t].cur)
         /\ /\ th'[t].pc = "http_reply"
            /\ th'[t].act \in {"open", "close"}
            /\ IsNone(th'[t].cur)
            => /\ th'[t].npost >= 1
               /\ th'[t].npost <= max_retries
               /\ th'[t].pout \in {"fail", "non200"} =>
                     th'[t].npost = max_retries /\ th'[t].sres = "false"]_vars

\* C34 happens: without a reading, the first POST failed and the second was
\* accepted by the device
C34_Witness ==
    /\ th["http"].pc = "http_reply"
    /\ th["http"].act = "close"
    /\ IsNone(th["http"].cur)
    /\ th["http"].npost = 2
    /\ th["http"].acc

\* the check has ended without a decision for want of a reading
Skipped(s) == s.cout \in {"nodata", "dberror"}

\* C35 as stated: when the fetch inside the check has failed, the check is
\* skipped only if the table holds no reading; with a reading in the table the
\* decision is made on it
C35_SkippedOnlyWithEmptyStore ==
    [][\A t \in Threads :
         th[t].pc = "cac_after_get" /\ Steps(t) =>
             (Skipped(th'[t]) <=> IsNone(th[t].gval) /\ IsNone(db_latest))]_vars

\* C35: when the fetch inside the check has failed, the decision is made on the
\* newest row of the table, whatever its age: the check sends the command that
\* row calls for, or ends without one as the row has it; it is skipped, with no
\* command, when the fetch has failed and the table is empty or the query for
\* its newest row fails, and in no other case.
C35_FallsBackOnStoredReading ==
    [][\A t \in Threads :
         th[t].pc = "cac_after_get" /\ Steps(t) =>
             /\ Skipped(th'[t]) => /\ IsNone(th[t].gval)
                                   /\ th'[t].pc = th[t].cto
                                   /\ th'[t].act = "none"
             /\ th'[t].cout = "nodata" => IsNone(db_latest)
             /\ IsNone(th[t].gval) /\ IsNone(db_latest) => Skipped(th'[t])
             /\ IsNone(th[t].gval) /\ ~Skipped(th'[t]) =>
                   LET d == Decide(ValuesOf(Val(db_latest)), lightThreshold,
                                   rainThreshold, now, last_auto_command_time,
                                   command_cooldown)
                   IN  IF d = "none"
                         THEN th'[t].pc = th[t].cto /\ th'[t].act = "none"
                         ELSE th'[t].pc = "send_entry" /\ th'[t].act = d]_vars

\* C35 happens: in an iteration in which no request to the device brought a
\* reading, the check has decided on the newest row and the device has
\* accepted the command
C35_Witness ==
    /\ th["pw"].pc = "send_sleep"
    /\ InAuto(th["pw"])
    /\ IsNone(th["pw"].cur)
    /\ th["pw"].acc
    /\ ~IsNone(db_latest)
    /\ IsNone(latest_polled_data) \/ Val(latest_polled_data).at < th["pw"].start

\* C36: whichever of the scheduler and the two routes has called train(), the
\* fit is reached only while the table holds at least window_size + 10 rows; a
\* call that finds fewer fails at its own count, before anything is loaded, and
\* leaves MODEL_INFO and the stored settings as they were.
C36_NoFitBelowBound ==
    [][\A t \in Threads :
         /\ th'[t].pc = "train_fit" => db_count' >= window_size + 10
         /\ th[t].pc = "train_count" /\ Steps(t) /\ db_count < window_size + 10 =>
               /\ th'[t].pc = th[t].tto
               /\ th'[t].tres = "error"
               /\ MODEL_INFO' = MODEL_INFO
               /\ settings' = settings]_vars

\* C36 happens: /force-train-model, which does not count the rows itself, was
\* called with one row too few and has answered with the error of train()
C36_Witness ==
    /\ th["http"].pc = "idle"
    /\ th["http"].reply = "500"
    /\ th["http"].tres = "error"
    /\ db_count = window_size + 9
    /\ ~MODEL_INFO.trained

====
